---- MODULE Spec2Model ----
(***************************************************************************)
(* repo-to-cat: the repository analysis pipeline (LangGraph workflow) and  *)
(* the services and provider clients its nodes call.                       *)
(*                                                                         *)
(*   Spec       one pipeline run, from workflow.invoke to END or to the    *)
(*              exception that leaves invoke; every external call is an    *)
(*              input chosen with \E.                                      *)
(*   FairSpec   Spec with weak fairness of Next (a run is one sequential   *)
(*              Python call: it keeps executing until it returns/raises).  *)
(*   SpecFetch  fetch_file_contents as a function of the requested paths   *)
(*              and of the host's answers, drawn from bounded sets.        *)
(*                                                                         *)
(* Scores are integers in tenths (85 is 8.5).  Byte strings and texts are  *)
(* run-length records: pad copies of the byte 'x' followed by a short tail.*)
(***************************************************************************)
EXTENDS Integers, Sequences, FiniteSets, TLC

VARIABLES
    pc,          \* node the run is at: a node name, "END", or "FAILED"
    phase,       \* position inside the node: "entry" or "call" (retry loop)
    attempt,     \* loop variable `attempt` of the running retry loop
    state,       \* the WorkflowState of the run
    error,       \* the exception that left workflow.invoke (NoError if none)
    trace,       \* history: the steps started, in order
    callSite,    \* history: the site of the latest external call with retries
    callLog,     \* history: attempts and sleeps of the latest such call
    callEnd,     \* history: how that call ended: "running", "returned", "raised"
    degraded,    \* history: nodes whose external call failed terminally
    locals,      \* locals of analyze_code_files kept across its LLM call
    db,          \* rows of the generations table
    disk,        \* image files written: generation id -> data
    arg,         \* the arguments of the call or request looked at
    ret,         \* its result or response
    now,         \* datetime.utcnow(), in days
    sessions,    \* rows of the sessions table
    issued,      \* history: the tokens create_session_token has returned
    revoked      \* history: the tokens a completed logout carried

vars == <<pc, phase, attempt, state, error, trace, callSite, callLog, callEnd,
          degraded, locals, db, disk, arg, ret, now, sessions, issued, revoked>>

runVars == <<pc, phase, attempt, state, error, trace, callSite, callLog,
             callEnd, degraded, locals, db, disk>>

fnVars == <<arg, ret>>

authVars == <<now, sessions, issued, revoked>>

\* nobody has logged in
NoSessions ==
    /\ now = 0
    /\ sessions = {}
    /\ issued = {}
    /\ revoked = {}

-----------------------------------------------------------------------------
(* Constants of the program *)

MAX_RETRIES_Raised == 3 + 1

MAX_RETRIES == 3

BASE_RETRY_DELAY == 1

TOGETHER_MAX_RETRIES == 3

TOGETHER_BASE_RETRY_DELAY == 1

MAX_FILE_SIZE == 50000

(* Bounds of the model *)

\* longest tail of bytes after the run of 'x' bytes in an enumerated file
MaxTail == 2

None == "None"

-----------------------------------------------------------------------------
(* Exceptions *)

Exc(cls, status, text) == [cls |-> cls, status |-> status, text |-> text]

NoError == Exc("None", 0, "")

\* github.GithubException(status, data): what PyGithub raises for a failed request
GithubException(status) ==
    Exc("GithubException", status,
        CASE status = 404 -> "Not Found"
          [] status = 403 -> "Forbidden"
          [] status = 429 -> "rate limit exceeded"
          [] OTHER -> "Server Error")

GithubStatuses == {404, 403, 429, 500}

ValueError(text) == Exc("ValueError", 0, text)

ImageGenerationError(text) == Exc("ImageGenerationError", 0, text)

ImageServiceError(text) == Exc("ImageServiceError", 0, text)

SQLAlchemyError == Exc("SQLAlchemyError", 0, "commit failed")

\* what client.chat.completions.create raises (openai exception classes)
OpenAIErrors ==
    { Exc("RateLimitError", 429, "Rate limit exceeded"),
      Exc("AuthenticationError", 401, "Invalid API key"),
      Exc("AuthenticationError", 401, "401 Unauthorized"),
      Exc("APIError", 500, "Internal server error") }

\* what client.images.generate raises (any Exception; the texts of the
\* unit tests and of a 401 answer that names neither word)
TogetherErrors ==
    { Exc("AuthenticationError", 401, "Invalid API key"),
      Exc("AuthenticationError", 401, "Authentication failed"),
      Exc("AuthenticationError", 401, "401 Unauthorized"),
      Exc("RateLimitError", 429, "Rate limit exceeded"),
      Exc("Exception", 0, "Persistent failure") }

\* what _download_and_encode_image raises
DownloadErrors ==
    { ImageGenerationError("Image download timed out after 30s"),
      ImageGenerationError("Failed to download image: Network error") }

\* "authentication" in str(e).lower() or "api key" in str(e).lower()
MentionsAuthentication(text) ==
    text \in {"Invalid API key", "Authentication failed"}

-----------------------------------------------------------------------------
(* Bytes and text.  A byte string is pad bytes 'x' (0x78) followed by tail,  *)
(* a sequence over ByteKinds: 0a newline, c3 lead byte of a 2-byte          *)
(* character, e2 lead byte of a 3-byte character, a9 continuation byte,     *)
(* ff a byte that occurs in no UTF-8 text.  A text (str) is pad characters  *)
(* 'x' followed by chars, each character written as the tuple of its bytes. *)

ByteKinds == {"0a", "c3", "e2", "a9", "ff"}

Bytes(pad, tail) == [pad |-> pad, tail |-> tail]

Text(pad, chars) == [pad |-> pad, chars |-> chars]

\* len(raw_content)
BytesLen(b) == b.pad + Len(b.tail)

\* len(text): characters, not bytes
TextLen(t) == t.pad + Len(t.chars)

Min(a, b) == IF a <= b THEN a ELSE b

\* raw_content[:n]
Slice(b, n) ==
    IF n <= b.pad
    THEN Bytes(n, <<>>)
    ELSE Bytes(b.pad, SubSeq(b.tail, 1, Min(n - b.pad, Len(b.tail))))

\* bytes a UTF-8 character starting with this byte takes; 0: not a lead byte
CharWidth(byte) ==
    CASE byte = "0a" -> 1
      [] byte = "c3" -> 2
      [] byte = "e2" -> 3
      [] OTHER -> 0

RECURSIVE DecodeTail(_)
DecodeTail(t) ==
    IF t = <<>>
    THEN [ok |-> TRUE, chars |-> <<>>]
    ELSE LET n == CharWidth(Head(t))
         IN  IF \/ n = 0
                \/ Len(t) < n
                \/ \E i \in 2..n : t[i] # "a9"
             THEN [ok |-> FALSE, chars |-> <<>>]
             ELSE LET rest == DecodeTail(SubSeq(t, n + 1, Len(t)))
                  IN  IF rest.ok
                      THEN [ok |-> TRUE, chars |-> <<SubSeq(t, 1, n)>> \o rest.chars]
                      ELSE [ok |-> FALSE, chars |-> <<>>]

\* raw_content.decode("utf-8"): ok = FALSE stands for UnicodeDecodeError
Utf8Decode(b) ==
    LET d == DecodeTail(b.tail)
    IN  [ok |-> d.ok, text |-> Text(b.pad, d.chars)]

RECURSIVE Flatten(_)
Flatten(chars) ==
    IF chars = <<>> THEN <<>> ELSE Head(chars) \o Flatten(Tail(chars))

\* text.encode("utf-8")
Utf8Encode(t) == Bytes(t.pad, Flatten(t.chars))

-----------------------------------------------------------------------------
(* Python dict with insertion order: keys in order, val on the keys *)

EmptyDict == [keys |-> <<>>, val |-> <<>>]

Range(s) == {s[i] : i \in DOMAIN s}

DictSet(d, k, v) ==
    [keys |-> IF k \in Range(d.keys) THEN d.keys ELSE Append(d.keys, k),
     val  |-> [x \in (DOMAIN d.val) \cup {k} |-> IF x = k THEN v ELSE d.val[x]]]

-----------------------------------------------------------------------------
(* github_service.fetch_file_contents *)

\* answers of repo.get_contents(path): a file with its bytes, a directory
\* listing (a list, which has no decoded_content), or a GithubException
FileAnswer(b) == [kind |-> "file", bytes |-> b, exc |-> NoError]

DirAnswer == [kind |-> "dir", bytes |-> Bytes(0, <<>>), exc |-> NoError]

RaiseAnswer(e) == [kind |-> "raise", bytes |-> Bytes(0, <<>>), exc |-> e]

\* the handlers of the per-file try: every branch is `continue`
OnFileError_Reraise(e) == IF e.status = 404 THEN "continue" ELSE "raise"

OnFileError(e) == "continue"

\* the body of the try for one file: "store" with the text, or "continue"
FetchOne(answer) ==
    IF answer.kind = "raise" THEN [do |-> OnFileError(answer.exc), exc |-> answer.exc, text |-> Text(0, <<>>)]
    ELSE IF answer.kind = "dir" THEN [do |-> "continue", exc |-> NoError, text |-> Text(0, <<>>)]
    ELSE LET raw_content == IF BytesLen(answer.bytes) > MAX_FILE_SIZE
                            THEN Slice(answer.bytes, MAX_FILE_SIZE)
                            ELSE answer.bytes
             decoded == Utf8Decode(raw_content)
         IN  IF decoded.ok
             THEN [do |-> "store", exc |-> NoError, text |-> decoded.text]
             ELSE [do |-> "continue", exc |-> NoError, text |-> Text(0, <<>>)]

RECURSIVE FetchLoop(_, _, _)
FetchLoop(file_paths, contents, acc) ==
    IF file_paths = <<>> \/ acc.raised # NoError
    THEN acc
    ELSE LET file_path == Head(file_paths)
             r == FetchOne(contents[file_path])
             asked == [acc EXCEPT !.requests =
                          Append(@, [ev |-> "request", what |-> file_path,
                                     exc |-> contents[file_path].exc, delay |-> 0])]
         IN  FetchLoop(Tail(file_paths), contents,
                 CASE r.do = "store" ->
                        [asked EXCEPT !.value = DictSet(asked.value, file_path, r.text)]
                   [] r.do = "raise" -> [asked EXCEPT !.raised = r.exc]
                   [] OTHER -> asked)

fetch_file_contents_SwallowsRepoError(file_paths, repo, contents) ==
    IF file_paths = <<>> \/ repo # 200
    THEN [raised |-> NoError, value |-> EmptyDict,
          requests |-> IF file_paths = <<>> THEN <<>>
                       ELSE <<[ev |-> "request", what |-> "get_repo",
                               exc |-> GithubException(repo), delay |-> 0]>>]
    ELSE FetchLoop(file_paths, contents,
             [raised |-> NoError, value |-> EmptyDict,
              requests |-> <<[ev |-> "request", what |-> "get_repo",
                              exc |-> NoError, delay |-> 0]>>])

\* repo: 200 or the status client.get_repo fails with; contents: path ->
\* answer of repo.get_contents.  The result: the exception raised (NoError
\* if none), the dict returned, and the requests sent to the host, in order.
fetch_file_contents(file_paths, repo, contents) ==
    IF file_paths = <<>>
    THEN [raised |-> NoError, value |-> EmptyDict, requests |-> <<>>]
    ELSE IF repo # 200
    THEN [raised |-> GithubException(repo), value |-> EmptyDict,
          requests |-> <<[ev |-> "request", what |-> "get_repo",
                          exc |-> GithubException(repo), delay |-> 0]>>]
    ELSE FetchLoop(file_paths, contents,
             [raised |-> NoError, value |-> EmptyDict,
              requests |-> <<[ev |-> "request", what |-> "get_repo",
                              exc |-> NoError, delay |-> 0]>>])

-----------------------------------------------------------------------------
(* github_service.select_strategic_files.  Paths are the strings of a small *)
(* universe; each pattern test of the code is a table over that universe,   *)
(* worked out from the pattern lists of the source.                         *)

Paths ==
    {"README.md", "docs/readme.md", "main.py", "src/main.py", "src/utils.py",
     "tests/test_main.py", "src/test_helpers.py", "requirements.txt",
     "node_modules/pkg/README.md", "node_modules/pkg/index.js",
     "vendor/setup.py", "build/test_out.py", "src/app.min.js"}

\* languages that are keys of ENTRY_POINT_PATTERNS, LANGUAGE_EXTENSIONS and
\* CONFIG_FILES; any other value ("Kotlin", None) is a key of none of them
Languages == {"Python", "JavaScript"}

\* index in README_PATTERNS of the first pattern p with
\* file_path.lower() == p.lower() or file_path.endswith(p); 0 if none
ReadmeRank(file_path) ==
    CASE file_path \in {"README.md", "node_modules/pkg/README.md"} -> 1
      [] file_path = "docs/readme.md" -> 5
      [] OTHER -> 0

\* index in ENTRY_POINT_PATTERNS[language] of the first pattern p with
\* file_path == p or p.endswith(file_path.split("/")[-1]); 0 if none
EntryPointRank(file_path, language) ==
    IF \/ language = "Python" /\ file_path \in {"main.py", "src/main.py"}
       \/ language = "JavaScript" /\ file_path = "node_modules/pkg/index.js"
    THEN 1
    ELSE 0

\* index in CONFIG_FILES[language] of the first pattern p with
\* file_path == p or file_path.endswith(p); 0 if none
ConfigRank(file_path, language) ==
    IF language = "Python" /\ file_path = "requirements.txt" THEN 1
    ELSE IF language = "Python" /\ file_path = "vendor/setup.py" THEN 4
    ELSE 0

\* any(file_path.startswith(dir_) for dir_ in CORE_DIRECTORIES)
InCoreDirectory(file_path) ==
    file_path \in {"src/main.py", "src/utils.py", "src/test_helpers.py", "src/app.min.js"}

\* "/" not in file_path
InRoot(file_path) == file_path \in {"README.md", "main.py", "requirements.txt"}

\* any(file_path.endswith(ext) for ext in LANGUAGE_EXTENSIONS[language])
HasExtension(file_path, language) ==
    \/ /\ language = "Python"
       /\ file_path \in {"main.py", "src/main.py", "src/utils.py", "tests/test_main.py",
                          "src/test_helpers.py", "vendor/setup.py", "build/test_out.py"}
    \/ /\ language = "JavaScript"
       /\ file_path \in {"node_modules/pkg/index.js", "src/app.min.js"}

\* any(pattern in file_path for pattern in TEST_PATTERNS)
HasTestPattern(file_path) ==
    file_path \in {"tests/test_main.py", "src/test_helpers.py", "build/test_out.py"}

\* any(dir_ in file_path for dir_ in TEST_DIRECTORIES)
InTestDirectory(file_path) == file_path \in {"tests/test_main.py"}

\* any(exclude in file_path for exclude in EXCLUDE_PATTERNS)
IsExcluded(file_path) ==
    file_path \in {"node_modules/pkg/README.md", "node_modules/pkg/index.js",
                   "vendor/setup.py", "build/test_out.py", "src/app.min.js"}

\* the two nested loops `for pattern in patterns: for file_path in file_tree`:
\* the first file, in tree order, that matches the earliest matching pattern;
\* ranks[i] is the index of the first pattern file_tree[i] matches (0: none)
FirstByRank(file_tree, ranks) ==
    LET found == Range(ranks) \ {0}
    IN  IF found = {}
        THEN None
        ELSE LET best == CHOOSE r \in found : \A q \in found : r <= q
                 first == CHOOSE i \in DOMAIN file_tree :
                             /\ ranks[i] = best
                             /\ \A j \in DOMAIN file_tree : ranks[j] = best => i <= j
             IN  file_tree[first]

find_first_match(file_tree) ==
    FirstByRank(file_tree, [i \in DOMAIN file_tree |-> ReadmeRank(file_tree[i])])

find_entry_point(file_tree, language) ==
    IF language = None \/ language \notin Languages
    THEN None
    ELSE FirstByRank(file_tree,
             [i \in DOMAIN file_tree |-> EntryPointRank(file_tree[i], language)])

find_config_file(file_tree, language) ==
    IF language = None \/ language \notin Languages
    THEN None
    ELSE FirstByRank(file_tree,
             [i \in DOMAIN file_tree |-> ConfigRank(file_tree[i], language)])

\* the list core_files of _find_core_file, as a set
core_files(file_tree, language) ==
    IF language = None \/ language \notin Languages
    THEN {}
    ELSE LET ok(f) == /\ HasExtension(f, language)
                      /\ ~HasTestPattern(f)
                      /\ ~IsExcluded(f)
             in_core == {f \in Range(file_tree) : InCoreDirectory(f) /\ ok(f)}
         IN  IF in_core # {}
             THEN in_core
             ELSE {f \in Range(file_tree) : InRoot(f) /\ ok(f)}

\* the list test_files of _find_test_file, as a set
test_files(file_tree) ==
    {f \in Range(file_tree) : InTestDirectory(f) \/ HasTestPattern(f)}

\* random.choice(candidates) if candidates else None: the possible results
RandomChoice(candidates) == IF candidates = {} THEN {None} ELSE candidates

AppendNew_NoMembershipTest(selected_files, f) ==
    IF Len(selected_files) < 5 /\ f # None
    THEN Append(selected_files, f)
    ELSE selected_files

\* `if len(selected_files) < 5: ... if f and f not in selected_files: append`
AppendNew(selected_files, f) ==
    IF Len(selected_files) < 5 /\ f # None /\ f \notin Range(selected_files)
    THEN Append(selected_files, f)
    ELSE selected_files

\* core_file and test_file are what the two random.choice calls returned
select_strategic_files(file_tree, language, core_file, test_file) ==
    IF file_tree = <<>>
    THEN <<>>
    ELSE LET readme == find_first_match(file_tree)
             s1 == IF readme # None THEN <<readme>> ELSE <<>>
             s2 == AppendNew(s1, find_entry_point(file_tree, language))
             s3 == AppendNew(s2, core_file)
             s4 == AppendNew(s3, test_file)
             s5 == AppendNew(s4, find_config_file(file_tree, language))
         IN  SubSeq(s5, 1, Min(5, Len(s5)))

\* every list select_strategic_files can return for this tree and language
Selections(file_tree, language) ==
    { select_strategic_files(file_tree, language, c, t) :
        c \in RandomChoice(core_files(file_tree, language)),
        t \in RandomChoice(test_files(file_tree)) }

\* fetch_files_node: language from the file extension
LanguageOf(path) ==
    IF path \in {"main.py", "src/main.py", "src/utils.py", "tests/test_main.py",
                 "src/test_helpers.py", "vendor/setup.py", "build/test_out.py"}
    THEN "Python"
    ELSE IF path \in {"node_modules/pkg/index.js", "src/app.min.js"}
    THEN "JavaScript"
    ELSE "Unknown"

\* "test" in path.lower() or "_test" in path.lower() or "spec" in path.lower()
PathNamesTest(path) ==
    path \in {"tests/test_main.py", "src/test_helpers.py", "build/test_out.py",
              "Tests/Main.py", "src/inspect.py"}

-----------------------------------------------------------------------------
(* workflow.create_workflow: the graph *)

Nodes ==
    {"extract_metadata", "select_files", "fetch_files", "analyze_code",
     "map_attributes", "generate_story", "generate_meme_text",
     "generate_prompt", "generate_image", "add_text_overlay", "save_to_db"}

Edges_PromptAfterImage ==
    { <<"START", "extract_metadata">>, <<"extract_metadata", "select_files">>,
      <<"select_files", "fetch_files">>, <<"fetch_files", "analyze_code">>,
      <<"analyze_code", "map_attributes">>, <<"map_attributes", "generate_story">>,
      <<"generate_story", "generate_meme_text">>,
      <<"generate_meme_text", "generate_image">>,
      <<"generate_image", "generate_prompt">>,
      <<"generate_prompt", "add_text_overlay">>,
      <<"add_text_overlay", "save_to_db">>, <<"save_to_db", "END">> }

\* the builder.add_edge calls
Edges ==
    { <<"START", "extract_metadata">>, <<"extract_metadata", "select_files">>,
      <<"select_files", "fetch_files">>, <<"fetch_files", "analyze_code">>,
      <<"analyze_code", "map_attributes">>, <<"map_attributes", "generate_story">>,
      <<"generate_story", "generate_meme_text">>,
      <<"generate_meme_text", "generate_prompt">>,
      <<"generate_prompt", "generate_image">>,
      <<"generate_image", "add_text_overlay">>,
      <<"add_text_overlay", "save_to_db">>, <<"save_to_db", "END">> }

Successor(node) == CHOOSE n \in Nodes \cup {"END"} : <<node, n>> \in Edges

-----------------------------------------------------------------------------
(* The retry loops of the provider clients.  A decision says what one pass *)
(* of the loop body does after the request: "return" its result, "raise",  *)
(* or "sleep" for delay seconds and go on with the next value of attempt.  *)

Decision(do, exc, delay) == [do |-> do, exc |-> exc, delay |-> delay]

Backoff_SleepsAfterLast(attempt_, e) ==
    IF e = NoError THEN Decision("return", NoError, 0)
    ELSE IF e.cls = "RateLimitError"
    THEN Decision("sleep", e, BASE_RETRY_DELAY * (2 ^ attempt_))
    ELSE Decision("raise", e, 0)

\* OpenRouterProvider._exponential_backoff_retry: e is what func() raised
\* in this pass (NoError: it returned)
exponential_backoff_retry(attempt_, e) ==
    IF e = NoError THEN Decision("return", NoError, 0)
    ELSE IF e.cls = "RateLimitError"
    THEN IF attempt_ = MAX_RETRIES - 1
         THEN Decision("raise", e, 0)
         ELSE Decision("sleep", e, BASE_RETRY_DELAY * (2 ^ attempt_))
    ELSE Decision("raise", e, 0)

\* TogetherProvider.generate_cat_image, the `except Exception as e` branch:
\* e is what images.generate or the download raised in this pass
generate_cat_image_except(attempt_, e) ==
    IF e = NoError THEN Decision("return", NoError, 0)
    ELSE IF MentionsAuthentication(e.text)
    THEN Decision("raise", ImageGenerationError("Authentication failed"), 0)
    ELSE IF attempt_ = TOGETHER_MAX_RETRIES - 1
    THEN Decision("raise", ImageGenerationError("Image generation failed after 3 attempts"), 0)
    ELSE Decision("sleep", e, TOGETHER_BASE_RETRY_DELAY * (2 ^ attempt_))

\* one entry of callLog: a request sent (exc: how it failed, NoError: it
\* succeeded) or a time.sleep(delay)
Request(what, e) == [ev |-> "request", what |-> what, exc |-> e, delay |-> 0]

Sleep(delay) == [ev |-> "sleep", what |-> "", exc |-> NoError, delay |-> delay]

-----------------------------------------------------------------------------
(* The run: WorkflowState and the nodes *)

NoMetadata ==
    [name |-> "", owner |-> "", size_kb |-> 0, stars |-> 0,
     primary_language |-> None, description |-> ""]

\* answers of the host for the repository: a Python repository of 3000 KB
\* and one of 12000 KB for which GitHub reports no language
Metadatas ==
    { [name |-> "r", owner |-> "o", size_kb |-> 3000, stars |-> 7,
       primary_language |-> "Python", description |-> "d"],
      [name |-> "r", owner |-> "o", size_kb |-> 12000, stars |-> 0,
       primary_language |-> None, description |-> ""] }

NoAnalysis ==
    [code_quality_score |-> 0, files_analyzed |-> <<>>,
     metrics |-> [has_tests |-> FALSE, heuristics_score |-> 0, llm_score |-> 0]]

NoCatAttrs ==
    [size |-> "", age |-> "", beauty_score |-> 0, expression |-> "",
     background |-> "", language |-> None, prompt |-> ""]

NoImage == [url |-> "", binary |-> "", prompt |-> "", original_url |-> ""]

\* keys: the keys the dict holds; a key not in keys has its No... value
InitialState ==
    [keys |-> {"github_url", "generation_id", "user_id"},
     github_url |-> "https://github.com/o/r",
     generation_id |-> "g1",
     user_id |-> "u1",
     metadata |-> NoMetadata,
     files |-> <<>>,
     analysis |-> NoAnalysis,
     cat_attrs |-> NoCatAttrs,
     story |-> "",
     meme_text_top |-> "",
     meme_text_bottom |-> "",
     image |-> NoImage]

\* the state update a node returns, merged by the graph
\* a node update that loses the input of the run
Put_ResetsInput(st, key, val) ==
    [st EXCEPT ![key] = val, !.keys = @ \cup {key}, !.github_url = ""]

Put(st, key, val) == [st EXCEPT ![key] = val, !.keys = @ \cup {key}]

\* answers of repo.get_git_tree: the file paths of the repository
Trees ==
    { <<>>,
      <<"main.py", "requirements.txt">>,
      <<"README.md", "src/utils.py", "tests/test_main.py">> }

\* answers of repo.get_contents in a run
RunAnswers ==
    { RaiseAnswer(GithubException(404)),
      RaiseAnswer(GithubException(429)),
      FileAnswer(Bytes(3, <<"0a">>)),
      FileAnswer(Bytes(1, <<"ff">>)),
      FileAnswer(Bytes(MAX_FILE_SIZE - 1, <<"c3", "a9">>)) }

Init ==
    /\ pc = Successor("START")
    /\ phase = "entry"
    /\ attempt = 0
    /\ state = InitialState
    /\ error = NoError
    /\ trace = <<>>
    /\ callSite = ""
    /\ callLog = <<>>
    /\ callEnd = "none"
    /\ degraded = {}
    /\ locals = [heuristics_score |-> 0, has_tests |-> FALSE]
    /\ db = {}
    /\ disk = {}
    /\ arg = [file_tree |-> <<>>, language |-> None]
    /\ ret = None
    /\ NoSessions

\* a node returned: the graph moves along its edge
Complete ==
    /\ pc' = Successor(pc)
    /\ phase' = "entry"
    /\ attempt' = 0
    /\ error' = error

Raise_RecordAndGoOn(e) ==
    /\ pc' = Successor(pc)
    /\ phase' = "entry"
    /\ attempt' = 0
    /\ error' = e

\* a node raised: no node catches, the graph has no error edge, so the
\* exception leaves workflow.invoke
Raise(e) ==
    /\ pc' = "FAILED"
    /\ phase' = "entry"
    /\ attempt' = 0
    /\ error' = e

\* the retry loop goes on with its next pass
NextPass ==
    /\ pc' = pc
    /\ phase' = "call"
    /\ attempt' = attempt + 1
    /\ error' = error

NoCall == UNCHANGED <<callSite, callLog, callEnd>>

extract_metadata_node ==
    /\ pc = "extract_metadata"
    /\ trace' = Append(trace, pc)
    /\ \E answer \in {200} \cup GithubStatuses :
          IF answer = 200
          THEN \E metadata \in Metadatas :
                  /\ state' = Put(state, "metadata", metadata)
                  /\ Complete
          ELSE /\ Raise(GithubException(answer))
               /\ UNCHANGED state
    /\ NoCall
    /\ UNCHANGED <<degraded, locals, db, disk, fnVars, authVars>>

\* get_file_tree, then select_strategic_files(file_tree): the call names no
\* language, the parameter takes its default None.  arg keeps the arguments
\* of the call.
select_files_node ==
    /\ pc = "select_files"
    /\ trace' = Append(trace, pc)
    /\ \E answer \in {200} \cup GithubStatuses :
          IF answer = 200
          THEN \E file_tree \in Trees :
                  \E selected_files \in Selections(file_tree, None) :
                      /\ arg' = [file_tree |-> file_tree, language |-> None]
                      /\ state' = Put(state, "files", selected_files)
                      /\ Complete
          ELSE /\ Raise(GithubException(answer))
               /\ UNCHANGED <<state, arg>>
    /\ NoCall
    /\ UNCHANGED <<degraded, locals, db, disk, ret, authVars>>

\* the list fetch_files_node builds from the dict, in the dict's order
files_with_content(d) ==
    [i \in DOMAIN d.keys |->
        [path |-> d.keys[i], content |-> d.val[d.keys[i]],
         language |-> LanguageOf(d.keys[i])]]

fetch_files_node ==
    /\ pc = "fetch_files"
    /\ trace' = Append(trace, pc)
    /\ \E repo \in {200} \cup GithubStatuses :
          \E contents \in [Range(state.files) -> RunAnswers] :
              LET r == fetch_file_contents(state.files, repo, contents)
              IN  /\ callSite' = pc
                  /\ callLog' = r.requests
                  /\ IF r.raised = NoError
                     THEN /\ state' = Put(state, "files", files_with_content(r.value))
                          /\ callEnd' = "returned"
                          /\ Complete
                     ELSE /\ Raise(r.raised)
                          /\ callEnd' = "raised"
                          /\ UNCHANGED state
    /\ UNCHANGED <<degraded, locals, db, disk, fnVars, authVars>>

\* the log of the call this pass belongs to, before the pass
CurLog == IF phase = "entry" THEN <<>> ELSE callLog

\* one pass of `for attempt in range(max_retries)` around func(): the
\* decision, with the fall out of the loop after its last pass (the method
\* then returns None, and the caller's response.choices raises)
OpenRouterPass(e) ==
    LET d == exponential_backoff_retry(attempt, e)
        sent == Append(CurLog, Request("create", e))
    IN  IF d.do = "sleep"
        THEN [do  |-> IF attempt + 1 < MAX_RETRIES THEN "sleep" ELSE "raise",
              exc |-> IF attempt + 1 < MAX_RETRIES THEN d.exc
                      ELSE Exc("AttributeError", 0, "NoneType has no attribute"),
              log |-> Append(sent, Sleep(d.delay))]
        ELSE [do |-> d.do, exc |-> d.exc, log |-> sent]

\* one pass of the loop of generate_cat_image: g is how images.generate
\* ended, dl how the download ended (asked only if g = NoError)
TogetherPass(g, dl) ==
    LET sent == IF g = NoError
                THEN CurLog \o <<Request("generate", g), Request("download", dl)>>
                ELSE Append(CurLog, Request("generate", g))
        e == IF g = NoError THEN dl ELSE g
        d == generate_cat_image_except(attempt, e)
    IN  IF d.do = "sleep"
        THEN [do  |-> IF attempt + 1 < TOGETHER_MAX_RETRIES THEN "sleep" ELSE "raise",
              exc |-> IF attempt + 1 < TOGETHER_MAX_RETRIES THEN d.exc
                      ELSE ImageGenerationError("Unexpected error"),
              log |-> Append(sent, Sleep(d.delay))]
        ELSE [do |-> d.do, exc |-> d.exc, log |-> sent]

\* `if not code_files`
NotCodeFiles_Never(code_files) == FALSE

NotCodeFiles(code_files) == code_files = <<>>

\* scores in tenths.  The heuristic score is a function of the text of the
\* files, which the model does not hold: it is an input of the run.
HeuristicScores == {30, 100}

LLMScores == {20, 100}

\* The sum heuristics_score * 0.3 + llm_score * 0.7 is computed in binary
\* floating point.  When the decimal sum lies exactly between two tenths,
\* round(final_score, 1) goes by the binary value, which is a little above
\* or below the decimal one: TieRoundsUp[h + 1] holds the scores q (tenths)
\* for which the sum for h and q, a tie, is rounded up (IEEE 754 doubles).
TieRoundsUp ==
    <<
         {25}, {96}, {47}, {18, 98}, {9, 39, 49, 69, 79}, {80, 90, 100},
      {31}, {12, 22}, {83, 93}, {4, 44, 64, 84}, {}, {6, 36}, {77}, {48},
      {9, 49, 79}, {50, 90, 100}, {61}, {2, 12, 32, 42}, {3, 83},
      {74, 84, 94}, {25, 45}, {6, 16}, {17, 47}, {58, 78, 98},
      {9, 29, 39, 49}, {0, 100}, {11, 31, 71}, {2, 22, 42, 62}, {3, 13, 83},
      {44, 84, 94}, {55, 75}, {26, 36}, {}, {68, 78, 88, 98},
      {39, 49, 59, 79}, {0, 10, 20, 100}, {1, 11}, {12, 22, 52, 62, 72},
      {23, 83}, {94}, {25, 65, 75}, {36}, {7, 17}, {78, 88, 98},
      {9, 49, 59, 69, 79}, {20}, {}, {22, 62, 72}, {}, {4, 94}, {5, 45, 75},
      {46}, {17, 27, 37}, {88}, {19, 49, 59, 69, 79, 99}, {50, 100},
      {1, 11}, {42, 72}, {43, 83}, {14, 24, 34, 84}, {}, {}, {27, 47},
      {88, 98}, {39, 69, 79}, {40, 50}, {11}, {}, {13, 53, 83, 93},
      {24, 44, 94}, {5, 25, 65, 95}, {36}, {17, 37, 47, 57},
      {8, 18, 78, 98}, {9, 39, 49, 69, 79, 99}, {10, 50, 90}, {21},
      {2, 22, 62, 92}, {83}, {14, 34, 44, 54}, {5, 25, 75}, {}, {47},
      {8, 18, 28, 38, 78, 88, 98}, {49, 59, 79, 89}, {100}, {31},
      {2, 22, 72}, {3, 43, 73, 83, 93}, {44, 84}, {}, {86}, {57},
      {8, 28, 48, 98}, {69, 99}, {0, 40, 70, 90}, {41}, {}, {83},
      {14, 24, 44, 54, 74, 94}, {5, 25, 45}
    >>

WeightedScore_Truncated(heuristics_score, llm_score) ==
    (3 * heuristics_score + 7 * llm_score) \div 10

\* round(heuristics_score * 0.3 + llm_score * 0.7, 1), scores in tenths
WeightedScore(heuristics_score, llm_score) ==
    LET x == 3 * heuristics_score + 7 * llm_score
        q == x \div 10
        r == x % 10
    IN  IF r < 5 THEN q
        ELSE IF r > 5 THEN q + 1
        ELSE IF llm_score \in TieRoundsUp[heuristics_score + 1] THEN q + 1
        ELSE q

\* AnalysisResult: code_quality_score has ge=0.0, le=10.0 and a validator
AnalysisResultAccepts(code_quality_score) ==
    code_quality_score >= 0 /\ code_quality_score <= 100

\* has_tests of calculate_code_quality_score: files without content are skipped
HasTests(code_files) ==
    \E i \in DOMAIN code_files :
        /\ TextLen(code_files[i].content) > 0
        /\ PathNamesTest(code_files[i].path)

\* analyze_code_files up to the LLM call: the test of the list, the heuristics
analyze_code_begin ==
    /\ pc = "analyze_code"
    /\ phase = "entry"
    /\ IF NotCodeFiles(state.files)
       THEN /\ trace' = Append(trace, pc)
            /\ Raise(ValueError("code_files cannot be empty"))
            /\ NoCall
            /\ UNCHANGED locals
       ELSE /\ trace' = trace \o <<pc, "heuristics">>
            /\ \E h \in HeuristicScores :
                  locals' = [heuristics_score |-> h, has_tests |-> HasTests(state.files)]
            /\ pc' = pc
            /\ phase' = "call"
            /\ attempt' = 0
            /\ error' = error
            /\ callSite' = pc
            /\ callLog' = <<>>
            /\ callEnd' = "none"
    /\ UNCHANGED <<state, degraded, db, disk, fnVars, authVars>>

\* analyze_code_files from the LLM call on: analyze_with_llm with its retry
\* loop, the weighted average, the AnalysisResult
analyze_code_llm ==
    /\ pc = "analyze_code"
    /\ phase = "call"
    /\ callSite' = pc
    /\ IF NotCodeFiles(state.files)
       THEN /\ Raise(ValueError("code_files cannot be empty"))
            /\ UNCHANGED <<state, trace, callLog, callEnd, degraded>>
       ELSE \E e \in OpenAIErrors \cup {NoError} :
              LET p == OpenRouterPass(e)
              IN  /\ callLog' = p.log
                  /\ trace' = IF attempt = 0 THEN Append(trace, "llm") ELSE trace
                  /\ CASE p.do = "sleep" ->
                            /\ NextPass
                            /\ callEnd' = "running"
                            /\ UNCHANGED <<state, degraded>>
                       [] p.do = "raise" ->
                            /\ Raise(p.exc)
                            /\ callEnd' = "raised"
                            /\ degraded' = degraded \cup {pc}
                            /\ UNCHANGED state
                       [] OTHER ->
                            /\ callEnd' = "returned"
                            /\ UNCHANGED degraded
                            /\ \E valid \in BOOLEAN :
                                  IF ~valid
                                  THEN /\ Raise(ValueError("Failed to validate response structure"))
                                       /\ UNCHANGED state
                                  ELSE \E llm_score \in LLMScores :
                                         LET result ==
                                               [code_quality_score |->
                                                  WeightedScore(locals.heuristics_score, llm_score),
                                                files_analyzed |->
                                                  [i \in DOMAIN state.files |-> state.files[i].path],
                                                metrics |->
                                                  [has_tests |-> locals.has_tests,
                                                   heuristics_score |-> locals.heuristics_score,
                                                   llm_score |-> llm_score]]
                                         IN  IF AnalysisResultAccepts(result.code_quality_score)
                                             THEN /\ state' = Put(state, "analysis", result)
                                                  /\ Complete
                                             ELSE /\ Raise(ValueError("validation error for AnalysisResult"))
                                                  /\ UNCHANGED state
    /\ UNCHANGED <<locals, db, disk, fnVars, authVars>>

-----------------------------------------------------------------------------
(* image_service.map_analysis_to_cat_attributes *)

\* CAT_SIZE_MAPPING, in the order of the dict
CAT_SIZE_MAPPING ==
    << [key |-> "small", range |-> <<0, 1000>>],
       [key |-> "medium", range |-> <<1001, 5000>>],
       [key |-> "large", range |-> <<5001, 10000>>],
       [key |-> "very_large", range |-> <<10001, 999999>>] >>

CatSize(repo_size_kb) ==
    LET hits == {i \in DOMAIN CAT_SIZE_MAPPING :
                    /\ CAT_SIZE_MAPPING[i].range[1] <= repo_size_kb
                    /\ repo_size_kb <= CAT_SIZE_MAPPING[i].range[2]}
    IN  IF hits = {}
        THEN "medium"
        ELSE CAT_SIZE_MAPPING[CHOOSE i \in hits : \A j \in hits : i <= j].key

CatAge(quality_score) ==
    IF quality_score >= 80 THEN "senior"
    ELSE IF quality_score >= 60 THEN "adult"
    ELSE IF quality_score >= 40 THEN "young"
    ELSE "kitten"

\* the expression without the `and has_tests`
CatExpression_IgnoresTests(quality_score, has_tests) ==
    IF quality_score >= 80 THEN "happy"
    ELSE IF quality_score >= 60 THEN "neutral"
    ELSE IF quality_score >= 40 THEN "concerned"
    ELSE "grumpy"

CatExpression(quality_score, has_tests) ==
    IF quality_score >= 80 /\ has_tests THEN "happy"
    ELSE IF quality_score >= 60 THEN "neutral"
    ELSE IF quality_score >= 40 THEN "concerned"
    ELSE "grumpy"

\* mappings.get_language_background
get_language_background(language) ==
    IF language = "Python"
    THEN "snakes and code snippets in a cozy den"
    ELSE "a generic code editor with colorful syntax highlighting and binary matrix"

\* dict.get(key, default)
Get(d, key, default) == IF key \in DOMAIN d THEN d[key] ELSE default

map_analysis_to_cat_attributes(metadata, analysis) ==
    [size |-> CatSize(metadata.size_kb),
     age |-> CatAge(analysis.code_quality_score),
     beauty_score |-> analysis.code_quality_score,
     expression |-> CatExpression(analysis.code_quality_score,
                                  Get(Get(analysis, "metrics", <<>>), "has_tests", FALSE)),
     background |-> get_language_background(metadata.primary_language),
     language |-> metadata.primary_language,
     prompt |-> ""]

map_attributes_node ==
    /\ pc = "map_attributes"
    /\ trace' = Append(trace, pc)
    /\ state' = Put(state, "cat_attrs",
                    map_analysis_to_cat_attributes(state.metadata, state.analysis))
    /\ Complete
    /\ NoCall
    /\ UNCHANGED <<degraded, locals, db, disk, fnVars, authVars>>

-----------------------------------------------------------------------------
(* The text nodes: story, meme text, prompt *)

\* what the `except Exception` of each service does with a failed call
OnTextError_Raise(e) == "raise"

\* story_service.generate_repository_story, image_service.generate_meme_text
\* and image_service.add_creative_spice: log, then return the fallback
OnTextError(e) == "fallback"

FallbackStory == "fallback story"

FallbackMemeTop(language) == IF language = None THEN "CODE REPO" ELSE "PYTHON REPO"

FallbackMemeBottom(quality_score) ==
    IF quality_score >= 70 THEN "SUCH QUALITY"
    ELSE IF quality_score >= 40 THEN "NEEDS WORK"
    ELSE "OH NO"

\* one pass of the retry loop of generate_text in a text node: fallback is
\* the state with the node's fallback output, generated the states with an
\* output made from the LLM's text
TextNode(node, fallback, generated) ==
    /\ pc = node
    /\ callSite' = pc
    /\ trace' = IF phase = "entry" THEN Append(trace, pc) ELSE trace
    /\ \E e \in OpenAIErrors \cup {NoError} :
          LET p == OpenRouterPass(e)
          IN  /\ callLog' = p.log
              /\ CASE p.do = "sleep" ->
                        /\ NextPass
                        /\ callEnd' = "running"
                        /\ UNCHANGED <<state, degraded>>
                   [] p.do = "raise" ->
                        /\ callEnd' = "raised"
                        /\ degraded' = degraded \cup {pc}
                        /\ IF OnTextError(p.exc) = "fallback"
                           THEN /\ state' = fallback
                                /\ Complete
                           ELSE /\ Raise(p.exc)
                                /\ UNCHANGED state
                   [] OTHER ->
                        /\ callEnd' = "returned"
                        /\ state' \in generated
                        /\ Complete
                        /\ UNCHANGED degraded
    /\ UNCHANGED <<locals, db, disk, fnVars, authVars>>

generate_story_node ==
    TextNode("generate_story",
             Put(state, "story", FallbackStory),
             {Put(state, "story", "story by the model")})

FallbackMemeText ==
    Put(Put(state, "meme_text_top", FallbackMemeTop(state.metadata.primary_language)),
        "meme_text_bottom", FallbackMemeBottom(state.analysis.code_quality_score))

\* the LLM's answer either has the TOP: and BOTTOM: lines or cannot be
\* parsed (ValueError inside the try: the fallback again)
generate_meme_text_node ==
    TextNode("generate_meme_text",
             FallbackMemeText,
             {Put(Put(state, "meme_text_top", "TOP BY THE MODEL"),
                  "meme_text_bottom", "BOTTOM BY THE MODEL"),
              FallbackMemeText})

WithPrompt(prompt) == Put(state, "cat_attrs", [state.cat_attrs EXCEPT !.prompt = prompt])

\* create_image_prompt: the base prompt, add_creative_spice, the technical
\* details.  add_creative_spice builds its own OpenRouterProvider() from the
\* environment: without OPENROUTER_API_KEY there, the ValueError is caught
\* like any failure and no request is sent.
generate_prompt_node ==
    \/ TextNode("generate_prompt",
                WithPrompt("base prompt, technical details"),
                {WithPrompt("enhanced prompt, technical details")})
    \/ /\ pc = "generate_prompt"
       /\ phase = "entry"
       /\ trace' = Append(trace, pc)
       /\ state' = WithPrompt("base prompt, technical details")
       /\ Complete
       /\ callSite' = pc
       /\ callLog' = <<>>
       /\ callEnd' = "none"
       /\ UNCHANGED <<degraded, locals, db, disk, fnVars, authVars>>

-----------------------------------------------------------------------------
(* The image nodes and the database node *)

\* save_image_locally: filename = f"{generation_id}.png", the url returned
\* is f"/generated_images/{filename}"
ImageUrl(generation_id) ==
    IF generation_id = "g1" THEN "/generated_images/g1.png"
    ELSE "/generated_images/g2.png"

\* save_image_locally with one file name for every generation
WriteImage_FixedName(files, generation_id, data) ==
    {f \in files : f.name # "cat"} \cup {[name |-> "cat", data |-> data]}

\* save_image_locally: open(<generation_id>.png, "wb") replaces the file
WriteImage(files, generation_id, data) ==
    {f \in files : f.name # generation_id} \cup {[name |-> generation_id, data |-> data]}

\* one pass of the retry loop of generate_cat_image, then save_image_locally
generate_image_node ==
    /\ pc = "generate_image"
    /\ callSite' = pc
    /\ trace' = IF phase = "entry" THEN Append(trace, pc) ELSE trace
    /\ IF state.cat_attrs.prompt = ""
       THEN /\ Raise(Exc("KeyError", 0, "prompt"))
            /\ callLog' = <<>>
            /\ callEnd' = "none"
            /\ UNCHANGED <<state, degraded, disk>>
       ELSE \E g \in TogetherErrors \cup {NoError} :
              \E dl \in IF g = NoError THEN DownloadErrors \cup {NoError} ELSE {NoError} :
                LET p == TogetherPass(g, dl)
                IN  /\ callLog' = p.log
                    /\ CASE p.do = "sleep" ->
                              /\ NextPass
                              /\ callEnd' = "running"
                              /\ UNCHANGED <<state, degraded, disk>>
                         [] p.do = "raise" ->
                              /\ Raise(p.exc)
                              /\ callEnd' = "raised"
                              /\ degraded' = degraded \cup {pc}
                              /\ UNCHANGED <<state, disk>>
                         [] OTHER ->
                              /\ callEnd' = "returned"
                              /\ UNCHANGED degraded
                              /\ \E written \in BOOLEAN :
                                    IF written
                                    THEN /\ disk' = WriteImage(disk, state.generation_id, "image")
                                         /\ state' = Put(state, "image",
                                               [url |-> ImageUrl(state.generation_id),
                                                binary |-> "image",
                                                prompt |-> state.cat_attrs.prompt,
                                                original_url |-> "https://together.ai/i.png"])
                                         /\ Complete
                                    ELSE /\ Raise(ImageServiceError("Permission denied writing file"))
                                         /\ UNCHANGED <<state, disk>>
    /\ UNCHANGED <<locals, db, fnVars, authVars>>

\* add_text_to_image, then save_image_locally over the first file
add_text_overlay_node ==
    /\ pc = "add_text_overlay"
    /\ trace' = Append(trace, pc)
    /\ \E drawn \in BOOLEAN, written \in BOOLEAN :
          IF ~drawn
          THEN /\ Raise(ImageServiceError("Text overlay failed"))
               /\ UNCHANGED <<state, disk>>
          ELSE IF ~written
          THEN /\ Raise(ImageServiceError("Permission denied writing file"))
               /\ UNCHANGED <<state, disk>>
          ELSE /\ disk' = WriteImage(disk, state.generation_id, "image with text")
               /\ state' = Put(state, "image",
                     [state.image EXCEPT !.binary = "image with text",
                                         !.url = ImageUrl(state.generation_id)])
               /\ Complete
    /\ NoCall
    /\ UNCHANGED <<degraded, locals, db, fnVars, authVars>>

\* the Generation row save_to_db_node builds (user_id is not among the
\* arguments of Generation(...): the column keeps its NULL)
GenerationRow(st) ==
    [id |-> st.generation_id,
     github_url |-> st.github_url,
     repo_owner |-> st.metadata.owner,
     repo_name |-> st.metadata.name,
     primary_language |-> st.metadata.primary_language,
     repo_size_kb |-> st.metadata.size_kb,
     code_quality_score |-> st.analysis.code_quality_score,
     cat_attributes |-> st.cat_attrs,
     analysis_data |-> st.analysis,
     image_path |-> st.image.url,
     image_prompt |-> st.image.prompt,
     story |-> st.story,
     meme_text_top |-> st.meme_text_top,
     meme_text_bottom |-> st.meme_text_bottom,
     user_id |-> None]

\* db.add, db.commit, db.refresh; on an exception db.rollback and raise.
\* A rollback after the commit went through undoes nothing: the row stays.
save_to_db_node ==
    /\ pc = "save_to_db"
    /\ trace' = Append(trace, pc)
    /\ \E committed \in BOOLEAN, refreshed \in BOOLEAN :
          IF ~committed
          THEN /\ db' = db
               /\ Raise(SQLAlchemyError)
          ELSE IF ~refreshed
          THEN /\ db' = db \cup {GenerationRow(state)}
               /\ Raise(Exc("SQLAlchemyError", 0, "refresh failed"))
          ELSE /\ db' = db \cup {GenerationRow(state)}
               /\ Complete
    /\ NoCall
    /\ UNCHANGED <<state, degraded, locals, disk, fnVars, authVars>>

Next ==
    \/ extract_metadata_node
    \/ select_files_node
    \/ fetch_files_node
    \/ analyze_code_begin
    \/ analyze_code_llm
    \/ map_attributes_node
    \/ generate_story_node
    \/ generate_meme_text_node
    \/ generate_prompt_node
    \/ generate_image_node
    \/ add_text_overlay_node
    \/ save_to_db_node

Spec == Init /\ [][Next]_vars

\* workflow.invoke is one sequential call: it runs until it returns or raises
FairSpec == Spec /\ WF_vars(Next)

-----------------------------------------------------------------------------
(* fetch_file_contents as a function: the requested paths, the answer of   *)
(* client.get_repo and the answers of repo.get_contents are the inputs.    *)

\* sequences over ByteKinds of length n
TailsOfLen(n) == [1..n -> ByteKinds]

Tails == UNION {TailsOfLen(n) : n \in 0..MaxTail}

\* lengths of the run of 'x' bytes: around the limit and far from it
Pads ==
    {0, 1, MAX_FILE_SIZE - 2, MAX_FILE_SIZE - 1, MAX_FILE_SIZE, MAX_FILE_SIZE + 1,
     MAX_FILE_SIZE + 10000}

FetchAnswers ==
    {FileAnswer(Bytes(pad, tail)) : pad \in Pads, tail \in Tails}
      \cup {DirAnswer}
      \cup {RaiseAnswer(GithubException(status)) : status \in GithubStatuses}
      \cup {RaiseAnswer(Exc("Exception", 0, "Connection reset"))}

\* answers for the second requested path
SecondAnswers ==
    { FileAnswer(Bytes(2, <<"0a">>)),
      FileAnswer(Bytes(MAX_FILE_SIZE, <<"c3", "a9">>)),
      RaiseAnswer(GithubException(404)) }

FetchPaths ==
    { <<>>, <<"main.py">>, <<"main.py", "README.md">>, <<"README.md", "main.py">> }

InitFetch ==
    /\ pc = "fetch_file_contents"
    /\ phase = "entry"
    /\ attempt = 0
    /\ state = InitialState
    /\ error = NoError
    /\ trace = <<>>
    /\ callSite = ""
    /\ callLog = <<>>
    /\ callEnd = "none"
    /\ degraded = {}
    /\ locals = [heuristics_score |-> 0, has_tests |-> FALSE]
    /\ db = {}
    /\ disk = {}
    /\ \E file_paths \in FetchPaths, repo \in {200} \cup GithubStatuses :
          \E first \in FetchAnswers, second \in SecondAnswers :
              arg = [file_paths |-> file_paths, repo |-> repo,
                     contents |-> [path \in {"main.py", "README.md"} |->
                                      IF path = "main.py" THEN first ELSE second]]
    /\ ret = [raised |-> NoError, value |-> EmptyDict, requests |-> <<>>]
    /\ NoSessions

\* the call: returns the dict or raises
fetch_file_contents_call ==
    /\ pc = "fetch_file_contents"
    /\ ret' = fetch_file_contents(arg.file_paths, arg.repo, arg.contents)
    /\ pc' = "returned"
    /\ UNCHANGED <<phase, attempt, state, error, trace, callSite, callLog,
                   callEnd, degraded, locals, db, disk, arg, authVars>>

NextFetch == fetch_file_contents_call

SpecFetch == InitFetch /\ [][NextFetch]_vars

-----------------------------------------------------------------------------
(* select_strategic_files as a function: the file tree and the language    *)
(* are the inputs, the results of the two random.choice calls are chosen   *)
(* in the action.                                                          *)

\* the universe of paths in one fixed order
PathOrder ==
    <<"README.md", "docs/readme.md", "main.py", "src/main.py", "src/utils.py",
      "tests/test_main.py", "src/test_helpers.py", "requirements.txt",
      "node_modules/pkg/README.md", "node_modules/pkg/index.js",
      "vendor/setup.py", "build/test_out.py", "src/app.min.js">>

Reverse(s) == [i \in 1..Len(s) |-> s[Len(s) + 1 - i]]

\* file trees: every set of paths of the universe, listed in the fixed
\* order and in the opposite order (a tree lists a path once)
SelectTrees ==
    UNION { {SelectSeq(PathOrder, LAMBDA f : f \in S),
             Reverse(SelectSeq(PathOrder, LAMBDA f : f \in S))} : S \in SUBSET Paths }

\* the language argument: two languages of the tables, one that is in none
\* of them, and None
SelectLanguages == Languages \cup {"Kotlin", None}

NoSelection == [value |-> <<>>, core_file |-> None, test_file |-> None]

InitSelect ==
    /\ pc = "select_strategic_files"
    /\ phase = "entry"
    /\ attempt = 0
    /\ state = InitialState
    /\ error = NoError
    /\ trace = <<>>
    /\ callSite = ""
    /\ callLog = <<>>
    /\ callEnd = "none"
    /\ degraded = {}
    /\ locals = [heuristics_score |-> 0, has_tests |-> FALSE]
    /\ db = {}
    /\ disk = {}
    /\ \E file_tree \in SelectTrees, language \in SelectLanguages :
          arg = [file_tree |-> file_tree, language |-> language]
    /\ ret = NoSelection
    /\ NoSessions

\* the call; core_file and test_file are what random.choice returned
select_strategic_files_call ==
    /\ pc = "select_strategic_files"
    /\ \E core_file \in RandomChoice(core_files(arg.file_tree, arg.language)),
          test_file \in RandomChoice(test_files(arg.file_tree)) :
            ret' = [value |-> select_strategic_files(arg.file_tree, arg.language,
                                                     core_file, test_file),
                    core_file |-> core_file,
                    test_file |-> test_file]
    /\ pc' = "returned"
    /\ UNCHANGED <<phase, attempt, state, error, trace, callSite, callLog,
                   callEnd, degraded, locals, db, disk, arg, authVars>>

NextSelect == select_strategic_files_call

SpecSelect == InitSelect /\ [][NextSelect]_vars

-----------------------------------------------------------------------------
(* routes.generate: POST /generate runs the workflow and answers.          *)

\* HTTPException(status_code) or, for 200, the GenerateResponse
Response(status_code) == [status_code |-> status_code]

\* result.get("error")
ResultError(result) == IF "error" \in result.keys THEN result.error ELSE None

\* the status for a workflow result that carries an error message
\* ("Repository not found: 404", "403 Forbidden", anything else)
ErrorStatus(error_msg) ==
    IF error_msg \in {"Repository not found: 404", "404 Not Found", "not found"}
    THEN 404
    ELSE IF error_msg \in {"403 Forbidden", "Access forbidden", "forbidden"}
    THEN 403
    ELSE 500

\* the route once workflow.invoke has returned its result or raised: an
\* exception that left invoke is no HTTPException and meets `except Exception`
generate ==
    /\ pc \in {"END", "FAILED"}
    /\ ret' = IF pc = "FAILED"
              THEN Response(500)
              ELSE IF ResultError(state) # None
              THEN Response(ErrorStatus(ResultError(state)))
              ELSE Response(200)
    /\ pc' = "responded"
    /\ UNCHANGED <<phase, attempt, state, error, trace, callSite, callLog,
                   callEnd, degraded, locals, db, disk, arg, authVars>>

\* list_generations: the rows `Generation.user_id == user.id` selects
list_generations(rows, user_id) == {row \in rows : row.user_id = user_id}

NextRoute ==
    \/ Next
    \/ generate

SpecRoute == Init /\ [][NextRoute]_vars

-----------------------------------------------------------------------------
(* The scoring and mapping functions, each as a specification of its own:  *)
(* the arguments are drawn in the initial state, the action is the call.   *)

\* before the call of the function `name`: no run is going on
FnInit(name) ==
    /\ pc = name
    /\ phase = "entry"
    /\ attempt = 0
    /\ state = InitialState
    /\ error = NoError
    /\ trace = <<>>
    /\ callSite = ""
    /\ callLog = <<>>
    /\ callEnd = "none"
    /\ degraded = {}
    /\ locals = [heuristics_score |-> 0, has_tests |-> FALSE]
    /\ db = {}
    /\ disk = {}
    /\ NoSessions

\* the function returns to its caller
FnReturn ==
    /\ pc' = "returned"
    /\ UNCHANGED <<phase, attempt, state, error, trace, callSite, callLog,
                   callEnd, degraded, locals, db, disk, arg, authVars>>

\* scores from 0.0 to 10.0 in steps of 0.1, in tenths
ScoreGrid == 0..100

\* analyze_code_files from the two scores on: the weighted average and the
\* construction of the AnalysisResult
InitFuse ==
    /\ FnInit("analyze_code_files")
    /\ \E heuristics_score \in ScoreGrid, llm_score \in ScoreGrid :
          arg = [heuristics_score |-> heuristics_score, llm_score |-> llm_score]
    /\ ret = [code_quality_score |-> 0, accepted |-> FALSE]

analyze_code_files_fuse ==
    /\ pc = "analyze_code_files"
    /\ LET final_score == WeightedScore(arg.heuristics_score, arg.llm_score)
       IN  ret' = [code_quality_score |-> final_score,
                   accepted |-> AnalysisResultAccepts(final_score)]
    /\ FnReturn

NextFuse == analyze_code_files_fuse

SpecFuse == InitFuse /\ [][NextFuse]_vars

\* _normalize_heuristics_to_10_scale.  Averages are in tenths, the comment
\* ratio in hundredths, the score in tenths.  The points are whole numbers,
\* so round(score, 1) leaves the sum as it is.
RubricPoints(metrics) ==
    LET line_avg == metrics.line_length_avg
        func_avg == metrics.function_length_avg
        nesting_avg == metrics.nesting_depth_avg
        comment_ratio == metrics.comment_ratio
        complexity_avg == metrics.complexity_avg
    IN    (IF line_avg < 1000 THEN 2 ELSE IF line_avg < 1200 THEN 1 ELSE 0)
        + (IF func_avg = 0 THEN 1
           ELSE IF func_avg < 300 THEN 2
           ELSE IF func_avg < 500 THEN 1 ELSE 0)
        + (IF nesting_avg < 30 THEN 2 ELSE IF nesting_avg < 40 THEN 1 ELSE 0)
        + (IF comment_ratio > 10 THEN 1 ELSE 0)
        + (IF metrics.has_type_hints THEN 1 ELSE 0)
        + (IF complexity_avg = 0 THEN 2
           ELSE IF complexity_avg < 50 THEN 2
           ELSE IF complexity_avg < 80 THEN 1 ELSE 0)
        + (IF metrics.has_tests THEN 1 ELSE 0)

\* `return round(score, 1)`, the cap left out
normalize_heuristics_Uncapped(metrics) == 10 * RubricPoints(metrics)

\* `return min(round(score, 1), 10.0)`
normalize_heuristics_to_10_scale(metrics) ==
    LET score == 10 * RubricPoints(metrics)
    IN  IF score < 100 THEN score ELSE 100

\* metrics on both sides of every threshold of the rubric
MetricsGrid ==
    [line_length_avg : {0, 999, 1000, 1199, 1200},
     function_length_avg : {0, 1, 299, 300, 499, 500},
     nesting_depth_avg : {0, 29, 30, 39, 40},
     comment_ratio : {0, 10, 11},
     has_type_hints : BOOLEAN,
     complexity_avg : {0, 49, 50, 79, 80},
     has_tests : BOOLEAN]

InitNormalize ==
    /\ FnInit("_normalize_heuristics_to_10_scale")
    /\ arg \in MetricsGrid
    /\ ret = -1

normalize_heuristics_call ==
    /\ pc = "_normalize_heuristics_to_10_scale"
    /\ ret' = normalize_heuristics_to_10_scale(arg)
    /\ FnReturn

NextNormalize == normalize_heuristics_call

SpecNormalize == InitNormalize /\ [][NextNormalize]_vars

\* repository sizes in KB on both sides of every boundary of the table
SizeGrid == {0, 1, 1000, 1001, 5000, 5001, 10000, 10001, 999999, 1000000}

\* the analysis dicts of a call: with has_tests, without it, without metrics
AnalysisGrid ==
    { [code_quality_score |-> s, metrics |-> [has_tests |-> b]] :
         s \in ScoreGrid, b \in BOOLEAN }
      \cup { [code_quality_score |-> s, metrics |-> [has_type_hints |-> TRUE]] :
                s \in ScoreGrid }
      \cup { [code_quality_score |-> s] : s \in ScoreGrid }

InitAttrs ==
    /\ FnInit("map_analysis_to_cat_attributes")
    /\ \E size_kb \in SizeGrid, analysis \in AnalysisGrid :
          arg = [metadata |-> [size_kb |-> size_kb, primary_language |-> "Python"],
                 analysis |-> analysis]
    /\ ret = [size |-> "", age |-> "", beauty_score |-> 0, expression |-> "",
              background |-> "", language |-> "", prompt |-> ""]

map_analysis_to_cat_attributes_call ==
    /\ pc = "map_analysis_to_cat_attributes"
    /\ ret' = map_analysis_to_cat_attributes(arg.metadata, arg.analysis)
    /\ FnReturn

NextAttrs == map_analysis_to_cat_attributes_call

SpecAttrs == InitAttrs /\ [][NextAttrs]_vars

(* calculate_code_quality_score.  A file of the list carries, next to its  *)
(* path and content, what the per-file helpers (_analyze_line_lengths,     *)
(* _detect_function_lengths, _calculate_nesting_depth,                     *)
(* _calculate_comment_ratio, _detect_type_hints, _calculate_complexity)    *)
(* return for its content.  Averages are in tenths, the comment ratio in   *)
(* hundredths, maxima and counts in units.                                 *)

MaxFiles == 3

\* what the helpers return for four kinds of content: blank lines only, a
\* flat script, a commented module with functions, a deeply nested module.
\* The averages are multiples of four so that no mean over up to
\* MaxFiles + 1 files falls halfway between two roundings.
Measured ==
    { [line_length_avg |-> 0, line_length_max |-> 0, lines_too_long_pct |-> 0,
       function_length_avg |-> 0, function_length_max |-> 0, function_count |-> 0,
       nesting_depth_avg |-> 0, nesting_depth_max |-> 0, comment_ratio |-> 0,
       type_hints |-> FALSE,
       complexity_avg |-> 0, complexity_max |-> 0, complexity_total |-> 0],
      [line_length_avg |-> 200, line_length_max |-> 40, lines_too_long_pct |-> 0,
       function_length_avg |-> 0, function_length_max |-> 0, function_count |-> 0,
       nesting_depth_avg |-> 0, nesting_depth_max |-> 0, comment_ratio |-> 0,
       type_hints |-> FALSE,
       complexity_avg |-> 0, complexity_max |-> 0, complexity_total |-> 0],
      [line_length_avg |-> 400, line_length_max |-> 80, lines_too_long_pct |-> 0,
       function_length_avg |-> 120, function_length_max |-> 20, function_count |-> 2,
       nesting_depth_avg |-> 20, nesting_depth_max |-> 4, comment_ratio |-> 20,
       type_hints |-> TRUE,
       complexity_avg |-> 20, complexity_max |-> 3, complexity_total |-> 6],
      [line_length_avg |-> 800, line_length_max |-> 130, lines_too_long_pct |-> 40,
       function_length_avg |-> 400, function_length_max |-> 60, function_count |-> 1,
       nesting_depth_avg |-> 40, nesting_depth_max |-> 8, comment_ratio |-> 8,
       type_hints |-> FALSE,
       complexity_avg |-> 80, complexity_max |-> 9, complexity_total |-> 30] }

\* what is never computed: the loop skips a file without content
NotMeasured == CHOOSE m \in Measured : m.line_length_max = 0

HeurPaths == {"src/utils.py", "tests/test_main.py", "Tests/Main.py"}

HeurFiles ==
    { [path |-> p, content |-> Text(0, <<>>), measured |-> NotMeasured] :
         p \in HeurPaths }
      \cup { [path |-> p, content |-> Text(5, <<>>), measured |-> m] :
                p \in HeurPaths, m \in Measured }

RECURSIVE SumSeq(_)
SumSeq(values) ==
    IF values = <<>> THEN 0 ELSE Head(values) + SumSeq(Tail(values))

\* max(values, default=0)
RECURSIVE MaxSeq(_)
MaxSeq(values) ==
    IF values = <<>> THEN 0
    ELSE LET rest == MaxSeq(Tail(values))
         IN  IF Head(values) >= rest THEN Head(values) ELSE rest

\* `round(mean(values), ndigits) if values else 0`, in units of the last digit
MeanRounded(values) ==
    IF values = <<>> THEN 0
    ELSE (2 * SumSeq(values) + Len(values)) \div (2 * Len(values))

\* [m[key] for m in all_metrics]
Column(all_metrics, key) == [i \in DOMAIN all_metrics |-> all_metrics[i][key]]

\* `if m[key] > 0`
Positive(values) == SelectSeq(values, LAMBDA v : v > 0)

\* the filter of the nesting depths and comment ratios, made `> 0`
NotNegative_DropsZero(values) == SelectSeq(values, LAMBDA v : v > 0)

\* `if m[key] >= 0`
NotNegative(values) == SelectSeq(values, LAMBDA v : v >= 0)

RECURSIVE AnyTrue(_)
AnyTrue(flags) ==
    IF flags = <<>> THEN FALSE ELSE Head(flags) \/ AnyTrue(Tail(flags))

\* the function after the test of the list
calculate_code_quality_score(code_files) ==
    LET all_metrics ==
            Column(SelectSeq(code_files, LAMBDA file : TextLen(file.content) > 0),
                   "measured")
    IN  [line_length_avg |-> MeanRounded(Positive(Column(all_metrics, "line_length_avg"))),
         line_length_max |-> MaxSeq(Column(all_metrics, "line_length_max")),
         lines_too_long_pct |->
             MeanRounded(NotNegative(Column(all_metrics, "lines_too_long_pct"))),
         function_length_avg |->
             MeanRounded(Positive(Column(all_metrics, "function_length_avg"))),
         function_length_max |-> MaxSeq(Column(all_metrics, "function_length_max")),
         function_count |-> SumSeq(Column(all_metrics, "function_count")),
         nesting_depth_avg |->
             MeanRounded(NotNegative(Column(all_metrics, "nesting_depth_avg"))),
         nesting_depth_max |-> MaxSeq(Column(all_metrics, "nesting_depth_max")),
         comment_ratio |-> MeanRounded(NotNegative(Column(all_metrics, "comment_ratio"))),
         has_tests |-> HasTests(code_files),
         has_type_hints |-> AnyTrue(Column(all_metrics, "type_hints")),
         complexity_avg |-> MeanRounded(Positive(Column(all_metrics, "complexity_avg"))),
         complexity_max |-> MaxSeq(Column(all_metrics, "complexity_max")),
         complexity_total |-> SumSeq(Column(all_metrics, "complexity_total"))]

NoMetrics == calculate_code_quality_score(<<>>)

InitHeur ==
    /\ FnInit("calculate_code_quality_score")
    /\ \E n \in 0..MaxFiles : arg \in [1..n -> HeurFiles]
    /\ ret = NoMetrics

calculate_code_quality_score_call ==
    /\ pc = "calculate_code_quality_score"
    /\ IF NotCodeFiles(arg)
       THEN /\ pc' = "raised"
            /\ error' = ValueError("code_files cannot be empty")
            /\ UNCHANGED <<phase, attempt, state, trace, callSite, callLog,
                           callEnd, degraded, locals, db, disk, arg, ret, authVars>>
       ELSE /\ ret' = calculate_code_quality_score(arg)
            /\ FnReturn

NextHeur == calculate_code_quality_score_call

SpecHeur == InitHeur /\ [][NextHeur]_vars

-----------------------------------------------------------------------------
(* github_service._parse_github_url and the lookup of                      *)
(* get_repository_metadata.  A URL is a sequence of pieces of text: "B" is *)
(* the base "https://github.com/", "/" a slash, "O" and "R" pieces of an   *)
(* owner or repository name, ".git" the suffix.                            *)

UrlPieces == {"B", "/", "O", "R", ".git"}

MaxUrl == 5

\* url.replace("https://github.com/", "")
RECURSIVE RemoveBase(_)
RemoveBase(url) ==
    IF url = <<>> THEN <<>>
    ELSE IF Head(url) = "B" THEN RemoveBase(Tail(url))
    ELSE <<Head(url)>> \o RemoveBase(Tail(url))

\* path.rstrip("/")
RECURSIVE RStripSlash(_)
RStripSlash(path) ==
    IF path # <<>> /\ path[Len(path)] = "/"
    THEN RStripSlash(SubSeq(path, 1, Len(path) - 1))
    ELSE path

\* path.split("/"): the parts, each a sequence of pieces
RECURSIVE SplitSlash(_, _)
SplitSlash(path, part) ==
    IF path = <<>> THEN <<part>>
    ELSE IF Head(path) = "/" THEN <<part>> \o SplitSlash(Tail(path), <<>>)
    ELSE SplitSlash(Tail(path), Append(part, Head(path)))

parse_github_url(url) ==
    IF url = <<>> \/ Head(url) # "B"
    THEN [raised |-> ValueError("Invalid GitHub URL"), owner |-> <<>>, repo_name |-> <<>>]
    ELSE LET parts == SplitSlash(RStripSlash(RemoveBase(url)), <<>>)
         IN  IF Len(parts) < 2
             THEN [raised |-> ValueError("GitHub URL must include owner and repository name"),
                   owner |-> <<>>, repo_name |-> <<>>]
             ELSE IF parts[1] = <<>> \/ parts[2] = <<>>
             THEN [raised |-> ValueError("GitHub URL must have non-empty owner and repository name"),
                   owner |-> <<>>, repo_name |-> <<>>]
             ELSE [raised |-> NoError, owner |-> parts[1], repo_name |-> parts[2]]

InitParse ==
    /\ FnInit("get_repository_metadata")
    /\ \E n \in 0..MaxUrl : arg \in [1..n -> UrlPieces]
    /\ ret = [get_repo |-> <<>>]

\* get_repository_metadata up to client.get_repo(f"{owner}/{repo_name}")
get_repository_metadata_call ==
    /\ pc = "get_repository_metadata"
    /\ LET parsed == parse_github_url(arg)
       IN  IF parsed.raised # NoError
           THEN /\ pc' = "raised"
                /\ error' = parsed.raised
                /\ UNCHANGED <<phase, attempt, state, trace, callSite, callLog,
                               callEnd, degraded, locals, db, disk, arg, ret, authVars>>
           ELSE /\ ret' = [get_repo |-> parsed.owner \o <<"/">> \o parsed.repo_name]
                /\ FnReturn

NextParse == get_repository_metadata_call

SpecParse == InitParse /\ [][NextParse]_vars

-----------------------------------------------------------------------------
(* Sessions: utils/auth.py, api/dependencies.py and the routes that depend *)
(* on get_current_user.  pc names the handler that ran last.               *)

expires_in_days == 7

MaxNow == 8

Users == {"u1", "u2"}

\* what create_session_token can return (secrets.token_hex: never twice)
Tokens == {"t1", "t2"}

\* the session_token cookie of a request: a token a login has set, a text
\* the client made up (secrets.token_hex(32) never returns it), or no cookie
Cookies == issued \cup {"made up", None}

SessionRow(user_id, token, expires_at) ==
    [user_id |-> user_id, token |-> token, expires_at |-> expires_at]

\* db.query(Session).filter(Session.token == token).first() found a row
HasToken(rows, token) == \E s \in rows : s.token = token

\* the row it found (token is unique)
FirstByToken(rows, token) == CHOOSE s \in rows : s.token = token

\* create_session: expires_at = utcnow() + timedelta(days=expires_in_days)
create_session(rows, user_id, token, utcnow) ==
    rows \cup {SessionRow(user_id, token, utcnow + expires_in_days)}

\* a verification that does not look at expires_at
verify_session_token_IgnoresExpiry(rows, token, utcnow) ==
    IF \E s \in rows : s.token = token
    THEN [user |-> (CHOOSE s \in rows : s.token = token).user_id, sessions |-> rows]
    ELSE [user |-> None, sessions |-> rows]

\* verify_session_token: the user, and the table after the call
verify_session_token(rows, token, utcnow) ==
    LET session == FirstByToken(rows, token)
    IN  IF ~HasToken(rows, token)
        THEN [user |-> None, sessions |-> rows]
        ELSE IF session.expires_at < utcnow
        THEN [user |-> None, sessions |-> rows \ {session}]
        ELSE [user |-> session.user_id, sessions |-> rows]

\* a logout that finds the session and leaves it
delete_session_Keeps(rows, token) ==
    [deleted |-> \E s \in rows : s.token = token, sessions |-> rows]

\* delete_session: whether a row was deleted, and the table after the call
delete_session(rows, token) ==
    LET session == FirstByToken(rows, token)
    IN  IF ~HasToken(rows, token)
        THEN [deleted |-> FALSE, sessions |-> rows]
        ELSE [deleted |-> TRUE, sessions |-> rows \ {session}]

\* get_optional_user in the place of get_current_user: no 401
get_current_user_Optional(rows, session_token, utcnow) ==
    [status_code |-> 200, user |-> None, sessions |-> rows]

\* get_current_user: 401 or the user, and the table after the call
get_current_user(rows, session_token, utcnow) ==
    IF session_token = None
    THEN [status_code |-> 401, user |-> None, sessions |-> rows]
    ELSE LET v == verify_session_token(rows, session_token, utcnow)
         IN  [status_code |-> IF v.user = None THEN 401 ELSE 200,
              user |-> v.user, sessions |-> v.sessions]

\* the answer to a request: invoked tells whether workflow.invoke was called
Answer(status_code, user, invoked) ==
    [status_code |-> status_code, user |-> user, invoked |-> invoked]

InitAuth ==
    /\ pc = "serving"
    /\ phase = "entry"
    /\ attempt = 0
    /\ state = InitialState
    /\ error = NoError
    /\ trace = <<>>
    /\ callSite = ""
    /\ callLog = <<>>
    /\ callEnd = "none"
    /\ degraded = {}
    /\ locals = [heuristics_score |-> 0, has_tests |-> FALSE]
    /\ db = {}
    /\ disk = {}
    /\ arg = [session_token |-> None]
    /\ ret = Answer(0, None, FALSE)
    /\ NoSessions

\* what no route of this section touches
NoRun ==
    UNCHANGED <<phase, attempt, state, error, trace, callSite, callLog, callEnd,
                degraded, locals, db, disk>>

\* POST /auth/login for an existing user: accepted says whether the
\* password matched
login ==
    /\ pc' = "login"
    /\ \E user \in Users, accepted \in BOOLEAN :
          IF accepted
          THEN \E token \in Tokens \ issued :
                  /\ sessions' = create_session(sessions, user, token, now)
                  /\ issued' = issued \cup {token}
                  /\ ret' = Answer(200, user, FALSE)
          ELSE /\ ret' = Answer(401, None, FALSE)
               /\ UNCHANGED <<sessions, issued>>
    /\ arg' = [session_token |-> None]
    /\ NoRun
    /\ UNCHANGED <<now, revoked>>

\* POST /auth/logout
logout ==
    /\ pc' = "logout"
    /\ \E session_token \in Cookies :
          /\ arg' = [session_token |-> session_token]
          /\ IF session_token # None
             THEN /\ sessions' = delete_session(sessions, session_token).sessions
                  /\ revoked' = revoked \cup {session_token}
             ELSE UNCHANGED <<sessions, revoked>>
    /\ ret' = Answer(200, None, FALSE)
    /\ NoRun
    /\ UNCHANGED <<now, issued>>

\* POST /generate behind Depends(get_current_user): the body runs, and
\* invokes the workflow, only when the dependency returned a user
generate_protected ==
    /\ pc' = "generate"
    /\ \E session_token \in Cookies :
          LET auth == get_current_user(sessions, session_token, now)
          IN  /\ arg' = [session_token |-> session_token]
              /\ sessions' = auth.sessions
              /\ IF auth.status_code = 401
                 THEN ret' = Answer(401, None, FALSE)
                 ELSE \E status_code \in {200, 500} :
                         ret' = Answer(status_code, auth.user, TRUE)
    /\ NoRun
    /\ UNCHANGED <<now, issued, revoked>>

\* GET /generations behind Depends(get_current_user)
list_generations_protected ==
    /\ pc' = "generations"
    /\ \E session_token \in Cookies :
          LET auth == get_current_user(sessions, session_token, now)
          IN  /\ arg' = [session_token |-> session_token]
              /\ sessions' = auth.sessions
              /\ ret' = Answer(auth.status_code, auth.user, FALSE)
    /\ NoRun
    /\ UNCHANGED <<now, issued, revoked>>

\* time passes: a day, or the life of a session
Tick ==
    /\ pc' = "clock"
    /\ \E days \in {1, expires_in_days} :
          /\ now + days <= MaxNow
          /\ now' = now + days
    /\ NoRun
    /\ UNCHANGED <<arg, ret, sessions, issued, revoked>>

NextAuth ==
    \/ login
    \/ logout
    \/ generate_protected
    \/ list_generations_protected
    \/ Tick

SpecAuth == InitAuth /\ [][NextAuth]_vars

-----------------------------------------------------------------------------
(* Two requests in one process.  routes.generate makes a generation_id with *)
(* uuid4 and a workflow of its own for each request; a node reads and       *)
(* returns only the state dict of its run, and builds its providers and its *)
(* database session inside the call.  The runs share the image directory    *)
(* and the generations table.  The run that has the processor keeps its     *)
(* frame in the variables of a single run; the frame of the run that waits  *)
(* is in ret.                                                               *)

GenerationIds == {"g1", "g2"}

\* the frame of the run that has the processor
Context ==
    [pc |-> pc, phase |-> phase, attempt |-> attempt, state |-> state,
     error |-> error, trace |-> trace, callSite |-> callSite,
     callLog |-> callLog, callEnd |-> callEnd, degraded |-> degraded,
     locals |-> locals]

\* the second request: the same dict with its own uuid4
SecondState == [InitialState EXCEPT !.generation_id = "g2"]

\* the runs of the pair: OPENROUTER_API_KEY is set, every request of a
\* stage is answered at the first pass, so no retry and no fallback, and
\* every file requested is text and is stored; a stage can still raise
Calm ==
    /\ attempt = 0
    /\ degraded = {}
    /\ \A i \in DOMAIN callLog : callLog[i].exc = NoError
    /\ (callSite = "fetch_files" /\ callEnd = "returned") =>
          Len(state.files) + 1 >= Len(callLog)
    /\ state.cat_attrs.prompt # "base prompt, technical details"

InitPair ==
    /\ pc = Successor("START")
    /\ phase = "entry"
    /\ attempt = 0
    /\ state = InitialState
    /\ error = NoError
    /\ trace = <<>>
    /\ callSite = ""
    /\ callLog = <<>>
    /\ callEnd = "none"
    /\ degraded = {}
    /\ locals = [heuristics_score |-> 0, has_tests |-> FALSE]
    /\ db = {}
    /\ disk = {}
    /\ arg = [file_tree |-> <<>>, language |-> None]
    /\ ret = [pc |-> Successor("START"), phase |-> "entry", attempt |-> 0,
              state |-> SecondState, error |-> NoError, trace |-> <<>>,
              callSite |-> "", callLog |-> <<>>, callEnd |-> "none",
              degraded |-> {}, locals |-> [heuristics_score |-> 0, has_tests |-> FALSE]]
    /\ NoSessions

\* a stage step of the run that has the processor
Step ==
    /\ Next
    /\ Calm'

\* the other run gets the processor: between two stage steps, and never a
\* run that has returned or raised
Switch ==
    /\ ret.pc \notin {"END", "FAILED"}
    /\ ret' = Context
    /\ pc' = ret.pc
    /\ phase' = ret.phase
    /\ attempt' = ret.attempt
    /\ state' = ret.state
    /\ error' = ret.error
    /\ trace' = ret.trace
    /\ callSite' = ret.callSite
    /\ callLog' = ret.callLog
    /\ callEnd' = ret.callEnd
    /\ degraded' = ret.degraded
    /\ locals' = ret.locals
    /\ UNCHANGED <<db, disk, arg, authVars>>

NextPair ==
    \/ Step
    \/ Switch

SpecPair == InitPair /\ [][NextPair]_vars

-----------------------------------------------------------------------------
(* Properties.  Reading callLog: the attempts of a call, their outcomes,   *)
(* the sleeps between them.                                                *)

Last(s) == s[Len(s)]

IsPrefix(s, t) == Len(s) <= Len(t) /\ SubSeq(t, 1, Len(s)) = s

\* the sites whose client has a retry loop
RetrySites ==
    {"analyze_code", "generate_story", "generate_meme_text", "generate_prompt",
     "generate_image"}

TextSites == {"generate_story", "generate_meme_text", "generate_prompt"}

IsSleep(x) == x.ev = "sleep"

\* an attempt is opened by the request to the model (the download of the
\* image belongs to the attempt of its images.generate)
IsAttempt(x) == x.ev = "request" /\ x.what \in {"create", "generate"}

Sleeps(log) == SelectSeq(log, IsSleep)

AttemptIdx(log) == {i \in DOMAIN log : IsAttempt(log[i])}

\* how the attempt opened at log[i] ended: NoError or its failure
Outcome(log, i) ==
    IF log[i].what = "generate" /\ log[i].exc = NoError /\ i + 1 <= Len(log)
    THEN log[i + 1].exc
    ELSE log[i].exc

\* the client's own classification of a failure as one to try again
Retryable(site, e) ==
    IF site = "generate_image"
    THEN ~MentionsAuthentication(e.text)
    ELSE e.cls = "RateLimitError"

Terminated == pc \in {"END", "FAILED"}

EarlyStages == {"extract_metadata", "select_files", "fetch_files"}

\* C1: once a stage has signalled NotFound or Forbidden (a 404 or 403 of
\* the repository host left the stage as its error), the run is stopped at
\* that stage: the stage is the last one started, no qualitative-assessment
\* call, image generation or persistence has happened or happens.
C1_ShortCircuit ==
    (error.cls = "GithubException" /\ error.status \in {404, 403}) =>
        /\ pc = "FAILED"
        /\ trace # <<>>
        /\ Last(trace) \in EarlyStages
        /\ Range(trace) \subseteq EarlyStages
        /\ \A i \in DOMAIN callLog : ~IsAttempt(callLog[i])
        /\ "analysis" \notin state.keys
        /\ "image" \notin state.keys
        /\ db = {}
        /\ disk = {}

C1_Witness ==
    /\ pc = "FAILED"
    /\ error = GithubException(403)
    /\ trace = <<"extract_metadata", "select_files", "fetch_files">>

StageOrder ==
    <<"extract_metadata", "select_files", "fetch_files", "analyze_code",
      "heuristics", "llm", "map_attributes", "generate_story",
      "generate_meme_text", "generate_prompt", "generate_image",
      "add_text_overlay", "save_to_db">>

\* C2: the steps started in a run are an initial part of the one fixed
\* order (heuristics before the qualitative call inside the analysis), so
\* no step starts twice or before its predecessor; the step the run is at
\* is the one after the last step started, and a failed run starts nothing.
C2_FixedOrder ==
    /\ IsPrefix(trace, StageOrder)
    /\ (pc \in Nodes /\ phase = "entry") =>
          /\ Len(trace) < Len(StageOrder)
          /\ StageOrder[Len(trace) + 1] = pc
          /\ error = NoError
    /\ pc = "END" => trace = StageOrder /\ error = NoError
    /\ pc = "FAILED" => error # NoError

C2_Witness == pc = "END" /\ trace = StageOrder /\ db # {}

C4_AuthNeverRetried ==
    callSite \in RetrySites =>
        \A i \in DOMAIN callLog :
            callLog[i].exc.cls = "AuthenticationError" =>
                i = Len(callLog) /\ callEnd = "raised"

\* the requests of the fetch stage that the host answered with a rate limit
RateLimitedRequests(log) ==
    {i \in DOMAIN log : log[i].ev = "request" /\ log[i].exc.status = 429}

\* C5 as stated: a fetch that the host answered with a rate limit is tried
\* again with backoff: the stage gives up with a terminal error only after
\* 3 attempts with sleeps of 1s and 2s, and a rate-limited request is
\* otherwise followed by a sleep and another attempt.
C5_FetchRetried ==
    (callSite = "fetch_files" /\ RateLimitedRequests(callLog) # {}) =>
        /\ \A i \in RateLimitedRequests(callLog) :
              \/ /\ i < Len(callLog)
                 /\ IsSleep(callLog[i + 1])
              \/ /\ Cardinality({j \in DOMAIN callLog :
                        callLog[j].ev = "request" /\ callLog[j].what = callLog[i].what}) = 3
                 /\ callEnd = "raised"
        /\ callEnd = "raised" =>
              [j \in DOMAIN Sleeps(callLog) |-> Sleeps(callLog)[j].delay] = <<1, 2>>

\* C5, amended: the fetch stage sends each of its requests to the host (the
\* repository lookup, then one per selected file) exactly once and never
\* sleeps; a rate limit on the repository lookup ends the stage at once
\* with that error after this single request, and a rate limit on a file
\* leaves that file out of the stage's result while the stage completes.
C5_FetchSentOnce ==
    callSite = "fetch_files" =>
        /\ \A i \in DOMAIN callLog : ~IsSleep(callLog[i])
        /\ \A i, j \in DOMAIN callLog : callLog[i].what = callLog[j].what => i = j
        /\ \A i \in RateLimitedRequests(callLog) :
              IF callLog[i].what = "get_repo"
              THEN /\ callLog = <<Request("get_repo", GithubException(429))>>
                   /\ callEnd = "raised"
                   /\ pc = "FAILED"
                   /\ error = GithubException(429)
              ELSE /\ callEnd = "returned"
                   /\ error.cls # "GithubException"
                   /\ pc = "analyze_code" \/ Last(trace) = "analyze_code"
                   /\ \A k \in DOMAIN state.files : state.files[k].path # callLog[i].what

C5_Witness ==
    /\ callSite = "fetch_files"
    /\ callEnd = "returned"
    /\ Cardinality(RateLimitedRequests(callLog)) = 1
    /\ Len(callLog) = 3
    /\ Len(state.files) = 1

C7_Terminates ==
    /\ <>[]Terminated
    /\ [](pc = "END" => Cardinality(db) = 1)
    /\ [](pc = "FAILED" => error # NoError)
    /\ [](Cardinality(AttemptIdx(callLog)) <= 3)
    /\ [](\A i, j \in DOMAIN callLog :
             (callSite = "fetch_files" /\ callLog[i].what = callLog[j].what) => i = j)

C7_Witness ==
    /\ pc = "FAILED"
    /\ callSite = "generate_image"
    /\ Cardinality(AttemptIdx(callLog)) = 3
    /\ \A i \in AttemptIdx(callLog) : Outcome(callLog, i).cls = "RateLimitError"

\* the first min(len, MAX_FILE_SIZE) bytes of a file
FirstBytes(b) == Slice(b, Min(BytesLen(b), MAX_FILE_SIZE))

\* C8: fetch_file_contents raises for no answer to a single file (it raises
\* only when the repository lookup fails); the keys of the result are
\* among the requested paths; a requested path whose fetch failed (host
\* error, a directory, kept bytes that do not decode) is absent, and every
\* other requested path is present with the text of the bytes kept.
C8_NeverRaisesPerFile ==
    pc = "returned" =>
        LET paths == Range(arg.file_paths)
            keys == Range(ret.value.keys)
        IN  /\ (arg.repo = 200 \/ arg.file_paths = <<>>) => ret.raised = NoError
            /\ keys \subseteq paths
            /\ Len(ret.value.keys) = Cardinality(keys)
            /\ arg.repo = 200 =>
                  \A p \in paths :
                      LET a == arg.contents[p]
                      IN  IF a.kind = "file" /\ Utf8Decode(FirstBytes(a.bytes)).ok
                          THEN /\ p \in keys
                               /\ Utf8Encode(ret.value.val[p]) = FirstBytes(a.bytes)
                          ELSE p \notin keys

C8_Witness ==
    /\ pc = "returned"
    /\ arg.file_paths = <<"main.py", "README.md">>
    /\ arg.contents["main.py"].exc = GithubException(429)
    /\ ret.raised = NoError
    /\ ret.value.keys = <<"README.md">>
    /\ ret.value.val["README.md"] = Text(2, << <<"0a">> >>)

\* C9: when the list of files that reaches the analysis is empty, the
\* analysis fails with the empty-input error before any heuristics or
\* qualitative-assessment request, writes no score into the run state, and
\* no later stage runs.
C9_EmptyInput ==
    ("analyze_code" \in Range(trace) /\ state.files = <<>>) =>
        /\ pc = "FAILED"
        /\ error = ValueError("code_files cannot be empty")
        /\ Last(trace) = "analyze_code"
        /\ callSite = "fetch_files"
        /\ \A i \in DOMAIN callLog : ~IsAttempt(callLog[i])
        /\ "analysis" \notin state.keys
        /\ state.analysis = NoAnalysis
        /\ db = {}
        /\ disk = {}

C9_Witness ==
    /\ pc = "FAILED"
    /\ error = ValueError("code_files cannot be empty")
    /\ trace = <<"extract_metadata", "select_files", "fetch_files", "analyze_code">>
    /\ \E i \in DOMAIN callLog : callLog[i].what = "README.md"

\* C10: every file that is text (its bytes are valid UTF-8) is kept, with
\* exactly its first 50,000 bytes as content if it is longer than that and
\* unchanged otherwise; so a file that is dropped is not text.
C10_TruncatedKept ==
    (pc = "returned" /\ arg.repo = 200) =>
        \A p \in Range(arg.file_paths) :
            LET a == arg.contents[p]
            IN  (a.kind = "file" /\ Utf8Decode(a.bytes).ok) =>
                    /\ p \in Range(ret.value.keys)
                    /\ Utf8Encode(ret.value.val[p]) = FirstBytes(a.bytes)

\* the selection step a path can come from: 1 documentation, 2 entry
\* point, 3 core file, 4 test file, 5 manifest
HasRole(k, f, file_tree, language) ==
    CASE k = 1 -> ReadmeRank(f) > 0
      [] k = 2 -> language \in Languages /\ EntryPointRank(f, language) > 0
      [] k = 3 -> f \in core_files(file_tree, language)
      [] k = 4 -> f \in test_files(file_tree)
      [] OTHER -> language \in Languages /\ ConfigRank(f, language) > 0

\* C11: select_strategic_files returns at most 5 paths, none repeated, all
\* of them members of the file tree, in priority order: the positions of
\* the list can be given increasing steps (documentation, entry point,
\* core file, test file, manifest) such that each path qualifies for its
\* step; an empty tree gives the empty list.
C11_SelectContract ==
    pc = "returned" =>
        LET v == ret.value
        IN  /\ Len(v) <= 5
            /\ \A i, j \in DOMAIN v : v[i] = v[j] => i = j
            /\ Range(v) \subseteq Range(arg.file_tree)
            /\ arg.file_tree = <<>> => v = <<>>
            /\ \E step \in [DOMAIN v -> 1..5] :
                  /\ \A i, j \in DOMAIN v : i < j => step[i] < step[j]
                  /\ \A i \in DOMAIN v :
                        HasRole(step[i], v[i], arg.file_tree, arg.language)

C11_Witness ==
    /\ pc = "returned"
    /\ arg.language = "Python"
    /\ ret.value = <<"README.md", "src/main.py", "src/utils.py",
                     "tests/test_main.py", "requirements.txt">>

\* C12: when the tree holds a documentation file, an entry point of the
\* language, a core-file candidate, a test file and a manifest, the list
\* returned has exactly 5 files whatever random.choice picked.
C12_AlwaysFive ==
    (/\ pc = "returned"
     /\ find_first_match(arg.file_tree) # None
     /\ find_entry_point(arg.file_tree, arg.language) # None
     /\ core_files(arg.file_tree, arg.language) # {}
     /\ test_files(arg.file_tree) # {}
     /\ find_config_file(arg.file_tree, arg.language) # None)
        => Len(ret.value) = 5

\* C13: no path of the list returned is under an excluded directory or is
\* a minified or bundled file.
C13_NoExcluded ==
    pc = "returned" => \A i \in DOMAIN ret.value : ~IsExcluded(ret.value[i])

Abs(x) == IF x < 0 THEN -x ELSE x

\* C14: for all scores h and q from 0.0 to 10.0 in steps of 0.1 the fused
\* score is 0.3*h + 0.7*q rounded to one decimal (a tenth nearest to the
\* sum: at most 0.05 away from it), lies in [0.0, 10.0] and is accepted by
\* the AnalysisResult schema; for h = q = 10.0 it is exactly 10.0.
C14_FusedScore ==
    pc = "returned" =>
        LET hundredths == 3 * arg.heuristics_score + 7 * arg.llm_score
        IN  /\ Abs(10 * ret.code_quality_score - hundredths) <= 5
            /\ ret.code_quality_score >= 0
            /\ ret.code_quality_score <= 100
            /\ ret.accepted
            /\ (arg.heuristics_score = 100 /\ arg.llm_score = 100) =>
                  ret.code_quality_score = 100

C14_Witness ==
    /\ pc = "returned"
    /\ arg = [heuristics_score |-> 100, llm_score |-> 100]
    /\ ret = [code_quality_score |-> 100, accepted |-> TRUE]

\* the points of the rubric as the documentation of the scorer lists them
LinePoints(avg) == IF avg < 1000 THEN 2 ELSE IF avg < 1200 THEN 1 ELSE 0

FunctionPoints(avg) ==
    CASE avg = 0 -> 1
      [] avg > 0 /\ avg < 300 -> 2
      [] avg >= 300 /\ avg < 500 -> 1
      [] OTHER -> 0

NestingPoints(avg) == IF avg < 30 THEN 2 ELSE IF avg < 40 THEN 1 ELSE 0

ComplexityPoints(avg) ==
    CASE avg = 0 \/ avg < 50 -> 2
      [] avg >= 50 /\ avg < 80 -> 1
      [] OTHER -> 0

Flag(b) == IF b THEN 1 ELSE 0

RawSum(m) ==
    LinePoints(m.line_length_avg) + FunctionPoints(m.function_length_avg)
      + NestingPoints(m.nesting_depth_avg) + Flag(m.comment_ratio > 10)
      + Flag(m.has_type_hints) + ComplexityPoints(m.complexity_avg)
      + Flag(m.has_tests)

C16_SizeTiers ==
    pc = "returned" =>
        LET sizeKb == arg.metadata.size_kb
        IN  ret.size = (IF sizeKb < 0 THEN "medium"
                        ELSE IF sizeKb <= 1000 THEN "small"
                        ELSE IF sizeKb <= 5000 THEN "medium"
                        ELSE IF sizeKb <= 10000 THEN "large"
                        ELSE "very_large")

\* has_tests of the analysis as the caller passed it, missing counting as false
PassedHasTests ==
    /\ "metrics" \in DOMAIN arg.analysis
    /\ "has_tests" \in DOMAIN arg.analysis.metrics
    /\ arg.analysis.metrics.has_tests

\* C17: for every fused score s in [0, 10] and every has_tests value (a
\* missing one counting as false) the expression is happy iff s >= 8 and
\* has_tests, otherwise neutral iff s >= 6, otherwise concerned iff s >= 4,
\* otherwise grumpy; beauty_score equals s.
C17_Expression ==
    pc = "returned" =>
        LET s == arg.analysis.code_quality_score
        IN  /\ ret.expression = "happy" <=> (s >= 80 /\ PassedHasTests)
            /\ ret.expression = "neutral" <=> (~(s >= 80 /\ PassedHasTests) /\ s >= 60)
            /\ ret.expression = "concerned" <=> (s < 60 /\ s >= 40)
            /\ ret.expression = "grumpy" <=> s < 40
            /\ ret.beauty_score = s

C17_Witness ==
    /\ pc = "returned"
    /\ arg.analysis.code_quality_score = 80
    /\ "metrics" \in DOMAIN arg.analysis
    /\ "has_tests" \notin DOMAIN arg.analysis.metrics
    /\ ret.expression = "neutral"
    /\ ret.beauty_score = 80

\* C18: the has_tests flag calculate_code_quality_score returns is true if
\* and only if at least one file of the list has a path that names a test
\* (contains 'test' or 'spec', whatever the case).
C18_HasTests ==
    pc = "returned" =>
        (ret.has_tests <=> \E i \in DOMAIN arg : PathNamesTest(arg[i].path))

\* the files of the list the loop measures
Analysed == {i \in DOMAIN arg : TextLen(arg[i].content) > 0}

RECURSIVE SumOver(_, _)
SumOver(S, key) ==
    IF S = {} THEN 0
    ELSE LET i == CHOOSE j \in S : TRUE
         IN  arg[i].measured[key] + SumOver(S \ {i}, key)

\* r is the mean of the metric `key` over the files S, rounded to the last
\* digit kept (0 when S is empty)
IsMeanOver(r, S, key) ==
    IF S = {} THEN r = 0
    ELSE 2 * Abs(Cardinality(S) * r - SumOver(S, key)) <= Cardinality(S)

NonZero(key) == {i \in Analysed : arg[i].measured[key] # 0}

IsMaxOver(r, S, key) ==
    /\ \A i \in S : arg[i].measured[key] <= r
    /\ \/ \E i \in S : arg[i].measured[key] = r
       \/ r = 0

\* C19 as stated: each of the five averaged metrics is the mean over the
\* files whose value for it is non-zero (0 when there is none), each
\* maximum is taken over all files.
C19_MeanOfNonZero ==
    pc = "returned" =>
        /\ \A key \in {"line_length_avg", "function_length_avg", "nesting_depth_avg",
                       "comment_ratio", "complexity_avg"} :
              IsMeanOver(ret[key], NonZero(key), key)
        /\ \A key \in {"line_length_max", "function_length_max", "nesting_depth_max",
                       "complexity_max"} :
              IsMaxOver(ret[key], Analysed, key)

\* C19 amended: line length, function length and complexity are means over
\* the files whose value is non-zero (0 when there is none); nesting depth
\* and comment ratio are means over every file that has content, a file
\* with the value zero included; each maximum is taken over every file
\* that has content.
C19_MeanPerMetric ==
    pc = "returned" =>
        /\ \A key \in {"line_length_avg", "function_length_avg", "complexity_avg"} :
              IsMeanOver(ret[key], NonZero(key), key)
        /\ \A key \in {"nesting_depth_avg", "comment_ratio"} :
              IsMeanOver(ret[key], Analysed, key)
        /\ \A key \in {"line_length_max", "function_length_max", "nesting_depth_max",
                       "complexity_max"} :
              IsMaxOver(ret[key], Analysed, key)

\* a flat file without functions next to a nested one with functions: the
\* zero halves the nesting mean and leaves the function mean alone
C19_Witness ==
    /\ pc = "returned"
    /\ Cardinality(Analysed) = 2
    /\ \E i, j \in Analysed :
          /\ arg[i].measured.nesting_depth_avg = 0
          /\ arg[i].measured.function_length_avg = 0
          /\ arg[j].measured.nesting_depth_avg = 40
          /\ arg[j].measured.function_length_avg = 400
    /\ ret.nesting_depth_avg = 20
    /\ ret.function_length_avg = 400

\* C20: POST /generate answers 404 when the repository does not exist on
\* the host and 403 when access to it is forbidden; it answers 500 only for
\* the other failures of the run.
C20_StatusByCause ==
    pc = "responded" =>
        /\ error = GithubException(404) => ret.status_code = 404
        /\ error = GithubException(403) => ret.status_code = 403
        /\ ret.status_code = 500 =>
              /\ error # NoError
              /\ error \notin {GithubException(404), GithubException(403)}

\* the fields of the run state
StateFields ==
    {"github_url", "generation_id", "user_id", "metadata", "files", "analysis",
     "cat_attrs", "story", "meme_text_top", "meme_text_bottom", "image"}

\* the fields a stage hands back
OutputFields(node) ==
    CASE node = "extract_metadata" -> {"metadata"}
      [] node \in {"select_files", "fetch_files"} -> {"files"}
      [] node = "analyze_code" -> {"analysis"}
      [] node \in {"map_attributes", "generate_prompt"} -> {"cat_attrs"}
      [] node = "generate_story" -> {"story"}
      [] node = "generate_meme_text" -> {"meme_text_top", "meme_text_bottom"}
      [] node \in {"generate_image", "add_text_overlay"} -> {"image"}
      [] OTHER -> {}

Started(node) == \E i \in DOMAIN trace : trace[i] = node

\* C27: github_url and generation_id are never changed; metadata is never
\* changed after the metadata stage, files never after the content-fetch
\* stage, analysis never after the analysis stage; a step of a stage changes
\* only the output field of the stage that is executing.
C27_Frame ==
    [][ /\ state'.github_url = state.github_url
        /\ state'.generation_id = state.generation_id
        /\ (Started("extract_metadata") /\ pc # "extract_metadata") =>
              state'.metadata = state.metadata
        /\ (Started("fetch_files") /\ pc # "fetch_files") =>
              state'.files = state.files
        /\ (Started("analyze_code") /\ pc # "analyze_code") =>
              state'.analysis = state.analysis
        /\ \A field \in StateFields \ OutputFields(pc) :
              state'[field] = state[field] ]_vars

C27_Witness ==
    /\ pc = "END"
    /\ state.keys = StateFields
    /\ state.metadata # NoMetadata
    /\ state.files # <<>>
    /\ state.image.binary = "image with text"

\* C30: a Generation row with the id of the run exists only if every
\* earlier stage of the run completed, and a run that fails at any stage
\* leaves no Generation row for its id.
C30_RowOnlyAfterSuccess ==
    /\ db # {} => \A node \in Nodes : Started(node)
    /\ pc = "FAILED" => ~ \E row \in db : row.id = state.generation_id

\* C26: in generate_cat_image, when the image was generated and its
\* download fails, the download error is raised at once: no sleep and no
\* further images.generate request follows the failed download.
C26_DownloadErrorRaised ==
    callSite = "generate_image" =>
        \A i \in DOMAIN callLog :
            (callLog[i].what = "download" /\ callLog[i].exc # NoError) =>
                /\ i = Len(callLog)
                /\ callEnd = "raised"
                /\ error = callLog[i].exc

\* C28: in a run over a repository whose primary language is a supported
\* one, when the tree holds an entry point, a core source file or a
\* manifest for that language, a file of that kind is among the files the
\* selection stage selected.
C28_AllPriorities ==
    (/\ pc = "fetch_files"
     /\ Last(trace) = "select_files"
     /\ state.metadata.primary_language \in Languages) =>
        LET language == state.metadata.primary_language
        IN  \A k \in {2, 3, 5} :
               (\E f \in Range(arg.file_tree) : HasRole(k, f, arg.file_tree, language))
                  => \E f \in Range(state.files) :
                        HasRole(k, f, arg.file_tree, language)

\* a name of an owner or a repository: pieces of name text only
IsName(t) == t # <<>> /\ \A i \in DOMAIN t : t[i] \in {"O", "R"}

\* C29: for 'https://github.com/O/R.git' the host is queried for 'O/R', as
\* for the reference without the suffix, for every owner O and name R.
C29_GitSuffix ==
    pc \in {"returned", "raised"} =>
        \A k \in 1..Len(arg) :
            (/\ arg[1] = "B"
             /\ arg[k] = "/"
             /\ IsName(SubSeq(arg, 2, k - 1))
             /\ IsName(SubSeq(arg, k + 1, Len(arg) - 1))
             /\ arg[Len(arg)] = ".git")
              => /\ pc = "returned"
                 /\ ret.get_repo = SubSeq(arg, 2, Len(arg) - 1)

\* C22: once a logout carrying token t has completed, no session row for t
\* exists and every later request to a protected route that carries only t
\* is answered 401, whatever logins, requests and logouts came before;
\* logout itself always answers 200, with a token, an unknown one or none.
C22_LogoutRevokes ==
    /\ \A t \in revoked : ~ \E s \in sessions : s.token = t
    /\ (pc \in {"generate", "generations"} /\ arg.session_token \in revoked) =>
          ret.status_code = 401
    /\ pc = "logout" => ret.status_code = 200

C22_Witness ==
    /\ pc = "generate"
    /\ arg.session_token \in revoked \cap issued
    /\ ret.status_code = 401
    /\ sessions # {}

\* the session row a token names before the request, if there is one
RowsOf(token) == {s \in sessions : s.token = token}

\* C23: a session whose expiry time is earlier than the current time never
\* authenticates, and its row is deleted; a session that exists and has not
\* expired authenticates as its owner and the table is left as it is; an
\* unknown token authenticates nobody and changes nothing.
C23_VerifySession ==
    [][ pc' \in {"generate", "generations"} =>
          LET t == arg'.session_token
          IN  /\ \A s \in RowsOf(t) :
                    IF s.expires_at < now
                    THEN ret'.user = None /\ sessions' = sessions \ {s}
                    ELSE ret'.user = s.user_id /\ sessions' = sessions
              /\ RowsOf(t) = {} => (ret'.user = None /\ sessions' = sessions) ]_vars

C23_Witness ==
    /\ pc = "generations"
    /\ arg.session_token \in issued \ revoked
    /\ RowsOf(arg.session_token) = {}
    /\ ret.status_code = 401

C21_LinkedToUser ==
    (pc = "responded" /\ ret.status_code = 200) =>
        \E row \in db :
            /\ row.id = state.generation_id
            /\ row.user_id = state.user_id
            /\ row \in list_generations(db, state.user_id)
            /\ \A other \in Users \ {state.user_id} :
                  row \notin list_generations(db, other)

\* the files and the rows that belong to other generations
FilesOfOthers(files, generation_id) == {f \in files : f.name # generation_id}

RowsOfOthers(rows, generation_id) == {row \in rows : row.id # generation_id}

\* a run that reached END left the outputs of its own frame on the disk and
\* in the table, and its frame hangs together as that of a single run does
FinishedAlone(frame) ==
    LET st == frame.state
    IN  /\ {row \in db : row.id = st.generation_id} = {GenerationRow(st)}
        /\ {f \in disk : f.name = st.generation_id}
             = {[name |-> st.generation_id, data |-> "image with text"]}
        /\ st.image.url = ImageUrl(st.generation_id)
        /\ st.image.binary = "image with text"
        /\ st.image.prompt = st.cat_attrs.prompt
        /\ [st.cat_attrs EXCEPT !.prompt = ""]
             = map_analysis_to_cat_attributes(st.metadata, st.analysis)
        /\ st.analysis.files_analyzed = [i \in DOMAIN st.files |-> st.files[i].path]
        /\ st.metadata \in Metadatas

\* C25: two runs with distinct generation ids, their stage steps interleaved
\* in any order: a step of one run leaves the frame of the other as it was
\* and touches no image file and no row of another generation, giving the
\* processor to the other run changes no frame, no file and no row, and a
\* run that reaches END has the final state, the file and the row of a run
\* that was alone.
C25_RunsIsolated ==
    [][/\ state.generation_id # ret.state.generation_id
       /\ IF state'.generation_id = state.generation_id
          THEN /\ ret' = ret
               /\ FilesOfOthers(disk', state.generation_id)
                    = FilesOfOthers(disk, state.generation_id)
               /\ RowsOfOthers(db', state.generation_id)
                    = RowsOfOthers(db, state.generation_id)
          ELSE /\ ret' = Context
               /\ Context' = ret
               /\ db' = db
               /\ disk' = disk
       /\ pc' = "END" => FinishedAlone(Context)'
       /\ ret'.pc = "END" => FinishedAlone(ret)']_vars

\* both runs finished, over different repositories, each with its file and
\* its row
C25_Witness ==
    /\ state.generation_id # ret.state.generation_id
    /\ pc = "END"
    /\ ret.pc = "END"
    /\ state.metadata # ret.state.metadata
    /\ Cardinality(db) = 2
    /\ Cardinality(disk) = 2

=============================================================================
